---------------------------- MODULE Spec2Model ----------------------------
(***************************************************************************)
(* A model of the extraction-and-reconciliation pipeline of the ETL:       *)
(*   util.chunkify / util.merge_nested_dicts                               *)
(*   DataService.get_ids / process_dirs / merge_data / get_card_data       *)
(*   main.py and gui_main.py, the run of the steps                         *)
(*   GameService.get_dir_data and its _parse_* helpers                     *)
(*   character_service (CharaSeries, CharaAssetType, path matching)        *)
(*                                                                         *)
(* Python values are represented as follows.                               *)
(*   str that is matched : a sequence of one-character strings (asset      *)
(*     or concatenated     paths, display names)                           *)
(*   str used as a key   : a TLA+ string (bundles, texture names, slots)   *)
(*   dict (ordered)      : a sequence of records [k |-> key, v |-> value], *)
(*                         in insertion order, keys pairwise distinct      *)
(*   list                : a sequence                                      *)
(*   None / missing attr : the strings None / NoSeries                     *)
(***************************************************************************)
EXTENDS Integers, Sequences, FiniteSets, TLC

VARIABLES
    \* --- chunkify, applied to a drawn list (SpecChunk)
    c_lst,          \* the list handed to chunkify
    c_n,            \* the number of parts asked for
    c_chunks,       \* the value chunkify returned
    c_pc,           \* "call" before the call, "returned" after it
    \* --- the creation of a character record (SpecSeries)
    s_konami_id,    \* the konami_id extracted from the key
    s_character,    \* <<>>, then the one record created
    \* --- DataService.get_ids and its workers (Spec)
    all_dirs,       \* the [data_dir, is_streaming] pairs os.walk lists
    NUM_THREADS,    \* config["num_threads"]
    dir_chunks,     \* chunkify(all_dirs, NUM_THREADS)
    w_state,        \* per chunk, the state of its process_dirs call:
                    \* pending, running, done, failed, cancelled
    w_i,            \* per chunk, the position of "for data_dir ..." in it
    w_pc,           \* per chunk, the statement the call is at: dir, load, store
    w_read,         \* per chunk, the value of self.processed it has read
    local_ids,      \* per chunk, the local_ids of its call
    processed,      \* DataService.processed
    finished,       \* the chunks in the order their calls ended
    results,        \* the list made of executor.map
    g_ids,          \* ids of get_ids
    g_merged,       \* how many results "for result in results" has merged
    g_pc,           \* where get_ids is: start, map, shutdown, merge, done,
                    \* raised
    ids_json,       \* ./etl/services/temp/ids.json: NoFile or <<content>>
    \* --- DataService.get_card_data (SpecCard)
    api_rows,       \* the CardModel rows the provider's metadata makes
    api_ok,         \* whether the provider answers with status 200
    api_text,       \* metadata_response.text of an answer that is not 200
    k_error,        \* the message of the Exception get_card_data raised
    db,             \* the CardModel table: konami_id -> name
    k_requests,     \* how many requests were sent to the provider
    out_wrapper,    \* get_card_data's out_wrapper
    k_i,            \* the position of "for card, data in ..." in ids["card"]
    k_name,         \* name
    k_alt_count,    \* alt_count
    k_pc,           \* where get_card_data is: start, open, loop, while,
                    \* done, raised, no_file
    data_json,      \* ./etl/services/temp/data.json: NoFile or <<content>>
    \* --- one container key of get_dir_data (SpecKey)
    p_key,          \* the key
    p_before,       \* ids as it was before the key
    p_ids,          \* ids
    p_asset_type,   \* what match_asset_by_string returned: an index in
                    \* CharaAssetType, 0 for None
    p_konami_id,    \* what get_konami_id returned
    p_raised,       \* whether ValueError left the loop
    p_pc,           \* key, then matched, identified, scanned or raised
    \* --- one run of the steps by main.py or by the window (SpecRun)
    r_entry,        \* the entry point: "main" or "gui"
    r_checked,      \* per step, whether the run takes it (the checkboxes)
    r_pc,           \* begin, get_ids, next, get_card_data, finished or
                    \* aborted
    \* --- GameService.get_dir_data on a drawn directory (SpecDir)
    d_files,        \* the bundles of the directory, in the order of os.walk
    d_result,       \* what get_dir_data did: [raised, ids]
    d_pc,           \* "call" before the call, "returned" after it
    \* --- merge_nested_dicts on the objects of a category (SpecMerge)
    m_heap,         \* the slot dicts (slot -> bundle) that exist, by address
    m_dict1,        \* the accumulator: texture name -> address of its dict
    m_dict2,        \* the incoming partial: texture name -> address
    m_before1,      \* the accumulator's content before the call
    m_before2,      \* the incoming partial's content before the call
    m_merges,       \* how many partials have come in
    m_pc            \* idle, then call and merged in turn

chunkVars == <<c_lst, c_n, c_chunks, c_pc>>

seriesVars == <<s_konami_id, s_character>>

pipeOwnVars == <<all_dirs, NUM_THREADS, dir_chunks, w_state, w_i, w_pc,
                 w_read, local_ids, processed, finished, results, g_ids,
                 g_merged, g_pc>>

pipeVars == <<pipeOwnVars, ids_json>>

cardVars == <<api_rows, api_ok, api_text, k_error, db, k_requests,
              out_wrapper, k_i, k_name, k_alt_count, k_pc, data_json>>

keyVars == <<p_key, p_before, p_ids, p_asset_type, p_konami_id, p_raised,
             p_pc>>

runVars == <<r_entry, r_checked, r_pc>>

dirVars == <<d_files, d_result, d_pc>>

mergeVars == <<m_heap, m_dict1, m_dict2, m_before1, m_before2, m_merges,
               m_pc>>

vars == <<chunkVars, seriesVars, pipeVars, cardVars, keyVars, runVars,
          dirVars, mergeVars>>

---------------------------------------------------------------------------
(* Bounds of the model *)

MaxLst == 5
MaxN == 4
MaxDirs == 3
MaxThreads == 2
MaxCards == 3
MaxFiles == 2
MaxMerges == 2

---------------------------------------------------------------------------
(* Python built-ins *)

None == "None"

Min(a, b) == IF a <= b THEN a ELSE b

\* lst[a:b] for 0 <= a, 0 <= b: both ends are clamped to len(lst).
Slice(lst, a, b) == SubSeq(lst, Min(a, Len(lst)) + 1, Min(b, Len(lst)))

RECURSIVE Concat(_)
\* The lists of a list of lists, joined in index order.
Concat(ls) == IF ls = <<>> THEN <<>> ELSE Head(ls) \o Concat(Tail(ls))

\* All sequences over S of length at most len.
SeqsUpTo(S, len) == UNION {[1..l -> S] : l \in 0..len}

---------------------------------------------------------------------------
(* Python dict, as the sequence of its items in insertion order *)

\* key in d
HasKey(d, key) == \E i \in DOMAIN d : d[i].k = key

\* d[key], for a key of d
GetItem(d, key) == d[CHOOSE i \in DOMAIN d : d[i].k = key].v

\* d[key] = value: an existing key keeps its place, a new key goes last
SetItem(d, key, value) ==
    IF HasKey(d, key)
    THEN [i \in DOMAIN d |->
             IF d[i].k = key THEN [k |-> key, v |-> value] ELSE d[i]]
    ELSE Append(d, [k |-> key, v |-> value])

\* d.keys()
KeySet(d) == {d[i].k : i \in DOMAIN d}

---------------------------------------------------------------------------
(* util.py *)

\* A chunkify that forgets the remainder: lst[i*k : (i+1)*k].
chunkify_drop_remainder(lst, n) ==
    LET k == Len(lst) \div n
    IN  [j \in 1..n |-> Slice(lst, (j - 1) * k, j * k)]

\* A chunkify that gives the extra items to the last m chunks.
chunkify_extra_last(lst, n) ==
    LET k == Len(lst) \div n
        m == Len(lst) % n
        extra(i) == IF i > n - m THEN i - (n - m) ELSE 0
    IN  [j \in 1..n |->
            Slice(lst, (j - 1) * k + extra(j - 1), j * k + extra(j))]

\* k, m = divmod(len(lst), n)
\* [lst[i*k + min(i, m) : (i+1)*k + min(i+1, m)] for i in range(n)]
chunkify(lst, n) ==
    LET k == Len(lst) \div n
        m == Len(lst) % n
    IN  [j \in 1..n |->
            Slice(lst, (j - 1) * k + Min(j - 1, m), j * k + Min(j, m))]

\* On a conflict the accumulator's value is kept (first-wins).
LeafConflictKeepsFirst(dict1_value, value) == dict1_value

\* util.py line 66, dict1[key] = value for a key both dicts hold: the value
\* that ends up in dict1
LeafConflict(dict1_value, value) == value

RECURSIVE MergeItems(_, _, _, _)
\* The loop of merge_nested_dicts from item i of dict2 on. depth is the
\* nesting of the two dicts: the values of a dict of depth 2 (texture name ->
\* slots) are dicts, those of a dict of depth 1 (slot -> bundle) are strings,
\* which is what decides isinstance(value, dict).
MergeItems(dict1, dict2, i, depth) ==
    IF i > Len(dict2) THEN dict1
    ELSE LET key   == dict2[i].k
             value == dict2[i].v
             step  ==
                 IF HasKey(dict1, key)
                 THEN IF depth > 1
                      THEN SetItem(dict1, key,
                               MergeItems(GetItem(dict1, key), value, 1,
                                          depth - 1))
                      ELSE SetItem(dict1, key,
                               LeafConflict(GetItem(dict1, key), value))
                 ELSE SetItem(dict1, key, value)
         IN  MergeItems(step, dict2, i + 1, depth)

\* merge_nested_dicts on two texture-name -> slot -> bundle mappings
merge_nested_dicts(dict1, dict2) == MergeItems(dict1, dict2, 1, 2)

\* get_data_wrapper
get_data_wrapper ==
    [card |-> <<>>, sleeve |-> <<>>, playmat |-> <<>>, character |-> <<>>]

---------------------------------------------------------------------------
(* Python str operations on paths (sequences of one-character strings) *)

UpperCase ==
    <<"A","B","C","D","E","F","G","H","I","J","K","L","M",
      "N","O","P","Q","R","S","T","U","V","W","X","Y","Z">>

LowerCase ==
    <<"a","b","c","d","e","f","g","h","i","j","k","l","m",
      "n","o","p","q","r","s","t","u","v","w","x","y","z">>

Digits == <<"0","1","2","3","4","5","6","7","8","9">>

IsDigit(c) == \E d \in DOMAIN Digits : Digits[d] = c

\* int(c) of a digit character
DigitValue(c) == (CHOOSE d \in DOMAIN Digits : Digits[d] = c) - 1

\* str.lower() on one character, then on a string
LowerChar(c) ==
    IF \E u \in DOMAIN UpperCase : UpperCase[u] = c
    THEN LowerCase[CHOOSE u \in DOMAIN UpperCase : UpperCase[u] = c]
    ELSE c

Lower(s) == [i \in DOMAIN s |-> LowerChar(s[i])]

\* s[i:i+len(p)] == p, with i a 1-based position
OccursAt(p, s, i) ==
    /\ i >= 1
    /\ i + Len(p) - 1 <= Len(s)
    /\ \A j \in 1..Len(p) : s[i + j - 1] = p[j]

\* p in s
IsSubstr(p, s) == \E i \in 1..(Len(s) + 1) : OccursAt(p, s, i)

\* \d{count} matches s at position i
DigitsAt(s, i, count) ==
    /\ i >= 1
    /\ i + count - 1 <= Len(s)
    /\ \A j \in i..(i + count - 1) : IsDigit(s[j])

RECURSIVE ParseInt(_)
\* int(s) of a string of digits
ParseInt(s) ==
    IF s = <<>> THEN 0
    ELSE 10 * ParseInt(SubSeq(s, 1, Len(s) - 1)) + DigitValue(s[Len(s)])

---------------------------------------------------------------------------
(* character_service.py *)

\* The value of a character attribute that was never set (hasattr is False).
NoSeries == "<no series>"

\* get_konami_id's None (an Optional[int]; identities are 0..9999).
NoKonamiId == -1

\* class CharaSeries(Enum), in declaration order
CharaSeries ==
    << [name |-> "DM",           value |-> 0],
       [name |-> "GX",           value |-> 100],
       [name |-> "FDS",          value |-> 200],
       [name |-> "DSOD",         value |-> 300],
       [name |-> "ZEXAL",        value |-> 400],
       [name |-> "ARC_V",        value |-> 500],
       [name |-> "VRAINS",       value |-> 600],
       [name |-> "SEVENS",       value |-> 700],
       [name |-> "STANDARD",     value |-> 800],
       [name |-> "RUSH",         value |-> 900],
       [name |-> "NON_PLAYABLE", value |-> 9000] >>

\* A check_series whose upper bound is inclusive.
check_series_inclusive(series, chara_id) ==
    IF series.value < 9000
    THEN series.value <= chara_id /\ chara_id <= series.value + 100
    ELSE chara_id >= series.value

\* CharaSeries.check_series
check_series(series, chara_id) ==
    IF series.value < 9000
    THEN series.value <= chara_id /\ chara_id < series.value + 100
    ELSE chara_id >= series.value

\* class CharaAssetType(Enum) in declaration order, each member with the
\* attribute CharacterAssets._ENUM_TO_ATTR gives it
CharaAssetType ==
   <<
      [name |-> "ICON", value |-> <<"C","h","a","r","a","0","0","1">>, attr |-> "icon"],
      [name |-> "SELECT", value |-> <<"C","h","a","r","a","0","0","2">>, attr |-> "select"],
      [name |-> "DUEL_1", value |-> <<"C","h","a","r","a","0","0","3","_","1">>, attr |-> "duel_1"],
      [name |-> "DUEL_2", value |-> <<"C","h","a","r","a","0","0","3","_","2">>, attr |-> "duel_2"],
      [name |-> "DUEL_3", value |-> <<"C","h","a","r","a","0","0","3","_","3">>, attr |-> "duel_3"],
      [name |-> "DUEL_4", value |-> <<"C","h","a","r","a","0","0","3","_","4">>, attr |-> "duel_4"],
      [name |-> "DUEL_5", value |-> <<"C","h","a","r","a","0","0","3","_","5">>, attr |-> "duel_5"],
      [name |-> "DUEL_6", value |-> <<"C","h","a","r","a","0","0","3","_","6">>, attr |-> "duel_6"],
      [name |-> "DUEL_7", value |-> <<"C","h","a","r","a","0","0","3","_","7">>, attr |-> "duel_7"],
      [name |-> "DUEL_8", value |-> <<"C","h","a","r","a","0","0","3","_","8">>, attr |-> "duel_8"],
      [name |-> "DUEL_9", value |-> <<"C","h","a","r","a","0","0","3","_","9">>, attr |-> "duel_9"],
      [name |-> "DUEL_10", value |-> <<"C","h","a","r","a","0","0","3","_","1","0">>, attr |-> "duel_10"],
      [name |-> "DUEL_11", value |-> <<"C","h","a","r","a","0","0","3","_","1","1">>, attr |-> "duel_11"],
      [name |-> "DUEL_12", value |-> <<"C","h","a","r","a","0","0","3","_","1","2">>, attr |-> "duel_12"],
      [name |-> "DUEL_13", value |-> <<"C","h","a","r","a","0","0","3","_","1","3">>, attr |-> "duel_13"],
      [name |-> "DUEL_14", value |-> <<"C","h","a","r","a","0","0","3","_","1","4">>, attr |-> "duel_14"],
      [name |-> "DUEL_15", value |-> <<"C","h","a","r","a","0","0","3","_","1","5">>, attr |-> "duel_15"],
      [name |-> "DUEL_16", value |-> <<"C","h","a","r","a","0","0","3","_","1","6">>, attr |-> "duel_16"],
      [name |-> "DUEL_17", value |-> <<"C","h","a","r","a","0","0","3","_","1","7">>, attr |-> "duel_17"],
      [name |-> "DUEL_18", value |-> <<"C","h","a","r","a","0","0","3","_","1","8">>, attr |-> "duel_18"],
      [name |-> "DUEL_19", value |-> <<"C","h","a","r","a","0","0","3","_","1","9">>, attr |-> "duel_19"],
      [name |-> "DUEL_20", value |-> <<"C","h","a","r","a","0","0","3","_","2","0">>, attr |-> "duel_20"],
      [name |-> "DUEL_31", value |-> <<"C","h","a","r","a","0","0","3","_","3","1">>, attr |-> "duel_31"],
      [name |-> "DUEL_32", value |-> <<"C","h","a","r","a","0","0","3","_","3","2">>, attr |-> "duel_32"],
      [name |-> "DUEL_33", value |-> <<"C","h","a","r","a","0","0","3","_","3","3">>, attr |-> "duel_33"],
      [name |-> "DUEL_34", value |-> <<"C","h","a","r","a","0","0","3","_","3","4">>, attr |-> "duel_34"],
      [name |-> "DUEL_35", value |-> <<"C","h","a","r","a","0","0","3","_","3","5">>, attr |-> "duel_35"],
      [name |-> "DUEL_36", value |-> <<"C","h","a","r","a","0","0","3","_","3","6">>, attr |-> "duel_36"],
      [name |-> "DUEL_37", value |-> <<"C","h","a","r","a","0","0","3","_","3","7">>, attr |-> "duel_37"],
      [name |-> "DUEL_38", value |-> <<"C","h","a","r","a","0","0","3","_","3","8">>, attr |-> "duel_38"],
      [name |-> "DUEL_39", value |-> <<"C","h","a","r","a","0","0","3","_","3","9">>, attr |-> "duel_39"],
      [name |-> "DUEL_40", value |-> <<"C","h","a","r","a","0","0","3","_","4","0">>, attr |-> "duel_40"],
      [name |-> "DUEL_41", value |-> <<"C","h","a","r","a","0","0","3","_","4","1">>, attr |-> "duel_41"],
      [name |-> "DUEL_42", value |-> <<"C","h","a","r","a","0","0","3","_","4","2">>, attr |-> "duel_42"],
      [name |-> "WORLD", value |-> <<"C","h","a","r","a","0","0","4">>, attr |-> "world"],
      [name |-> "EVENT", value |-> <<"C","h","a","r","a","0","0","4","_","1">>, attr |-> "event"],
      [name |-> "DIALOG_0", value |-> <<"C","h","a","r","a","0","0","7","_","0">>, attr |-> "dialog_0"],
      [name |-> "DIALOG_1", value |-> <<"C","h","a","r","a","0","0","7","_","1">>, attr |-> "dialog_1"],
      [name |-> "DIALOG_2", value |-> <<"C","h","a","r","a","0","0","7","_","2">>, attr |-> "dialog_2"],
      [name |-> "DIALOG_3", value |-> <<"C","h","a","r","a","0","0","7","_","3">>, attr |-> "dialog_3"],
      [name |-> "DIALOG_4", value |-> <<"C","h","a","r","a","0","0","7","_","4">>, attr |-> "dialog_4"],
      [name |-> "DIALOG_5", value |-> <<"C","h","a","r","a","0","0","7","_","5">>, attr |-> "dialog_5"],
      [name |-> "DIALOG_6", value |-> <<"C","h","a","r","a","0","0","7","_","6">>, attr |-> "dialog_6"],
      [name |-> "DIALOG_7", value |-> <<"C","h","a","r","a","0","0","7","_","7">>, attr |-> "dialog_7"],
      [name |-> "DIALOG_8", value |-> <<"C","h","a","r","a","0","0","7","_","8">>, attr |-> "dialog_8"],
      [name |-> "DIALOG_9", value |-> <<"C","h","a","r","a","0","0","7","_","9">>, attr |-> "dialog_9"],
      [name |-> "DIALOG_10", value |-> <<"C","h","a","r","a","0","0","7","_","1","0">>, attr |-> "dialog_10"],
      [name |-> "DIALOG_11", value |-> <<"C","h","a","r","a","0","0","7","_","1","1">>, attr |-> "dialog_11"],
      [name |-> "DIALOG_12", value |-> <<"C","h","a","r","a","0","0","7","_","1","2">>, attr |-> "dialog_12"],
      [name |-> "DIALOG_13", value |-> <<"C","h","a","r","a","0","0","7","_","1","3">>, attr |-> "dialog_13"],
      [name |-> "DIALOG_14", value |-> <<"C","h","a","r","a","0","0","7","_","1","4">>, attr |-> "dialog_14"],
      [name |-> "DIALOG_15", value |-> <<"C","h","a","r","a","0","0","7","_","1","5">>, attr |-> "dialog_15"],
      [name |-> "DIALOG_16", value |-> <<"C","h","a","r","a","0","0","7","_","1","6">>, attr |-> "dialog_16"],
      [name |-> "DIALOG_17", value |-> <<"C","h","a","r","a","0","0","7","_","1","7">>, attr |-> "dialog_17"],
      [name |-> "DIALOG_18", value |-> <<"C","h","a","r","a","0","0","7","_","1","8">>, attr |-> "dialog_18"],
      [name |-> "DIALOG_19", value |-> <<"C","h","a","r","a","0","0","7","_","1","9">>, attr |-> "dialog_19"],
      [name |-> "DIALOG_20", value |-> <<"C","h","a","r","a","0","0","7","_","2","0">>, attr |-> "dialog_20"],
      [name |-> "DIALOG_21", value |-> <<"C","h","a","r","a","0","0","7","_","2","1">>, attr |-> "dialog_21"],
      [name |-> "DIALOG_22", value |-> <<"C","h","a","r","a","0","0","7","_","2","2">>, attr |-> "dialog_22"],
      [name |-> "DIALOG_23", value |-> <<"C","h","a","r","a","0","0","7","_","2","3">>, attr |-> "dialog_23"],
      [name |-> "DIALOG_24", value |-> <<"C","h","a","r","a","0","0","7","_","2","4">>, attr |-> "dialog_24"],
      [name |-> "DIALOG_25", value |-> <<"C","h","a","r","a","0","0","7","_","2","5">>, attr |-> "dialog_25"],
      [name |-> "DIALOG_26", value |-> <<"C","h","a","r","a","0","0","7","_","2","6">>, attr |-> "dialog_26"],
      [name |-> "DIALOG_31", value |-> <<"C","h","a","r","a","0","0","7","_","3","1">>, attr |-> "dialog_31"],
      [name |-> "DIALOG_32", value |-> <<"C","h","a","r","a","0","0","7","_","3","2">>, attr |-> "dialog_32"],
      [name |-> "DIALOG_33", value |-> <<"C","h","a","r","a","0","0","7","_","3","3">>, attr |-> "dialog_33"],
      [name |-> "DIALOG_34", value |-> <<"C","h","a","r","a","0","0","7","_","3","4">>, attr |-> "dialog_34"],
      [name |-> "DIALOG_35", value |-> <<"C","h","a","r","a","0","0","7","_","3","5">>, attr |-> "dialog_35"],
      [name |-> "DIALOG_36", value |-> <<"C","h","a","r","a","0","0","7","_","3","6">>, attr |-> "dialog_36"],
      [name |-> "DIALOG_37", value |-> <<"C","h","a","r","a","0","0","7","_","3","7">>, attr |-> "dialog_37"],
      [name |-> "DIALOG_38", value |-> <<"C","h","a","r","a","0","0","7","_","3","8">>, attr |-> "dialog_38"],
      [name |-> "DIALOG_39", value |-> <<"C","h","a","r","a","0","0","7","_","3","9">>, attr |-> "dialog_39"],
      [name |-> "DIALOG_40", value |-> <<"C","h","a","r","a","0","0","7","_","4","0">>, attr |-> "dialog_40"],
      [name |-> "DIALOG_41", value |-> <<"C","h","a","r","a","0","0","7","_","4","1">>, attr |-> "dialog_41"],
      [name |-> "DIALOG_42", value |-> <<"C","h","a","r","a","0","0","7","_","4","2">>, attr |-> "dialog_42"],
      [name |-> "DIALOG_43", value |-> <<"C","h","a","r","a","0","0","7","_","4","3">>, attr |-> "dialog_43"],
      [name |-> "DIALOG_44", value |-> <<"C","h","a","r","a","0","0","7","_","4","4">>, attr |-> "dialog_44"],
      [name |-> "DIALOG_45", value |-> <<"C","h","a","r","a","0","0","7","_","4","5">>, attr |-> "dialog_45"],
      [name |-> "SELECTED_LEGACY", value |-> <<"C","h","a","r","a","0","0","9">>, attr |-> "selected_legacy"],
      [name |-> "SELECTED_NEW", value |-> <<"C","h","a","r","a","0","1","0">>, attr |-> "selected_new"],
      [name |-> "HOME_VICTORY", value |-> <<"C","h","a","r","a","0","5","0","_","1">>, attr |-> "home_victory"],
      [name |-> "HOME_SPECIAL", value |-> <<"C","h","a","r","a","0","5","0","_","2">>, attr |-> "home_special"],
      [name |-> "NAME_BIG", value |-> <<"C","h","a","r","a","N","a","m","e","0","0","1">>, attr |-> "name_big"],
      [name |-> "NAME_SMALL", value |-> <<"C","h","a","r","a","N","a","m","e","0","0","2">>, attr |-> "name_small"],
      [name |-> "CUTIN", value |-> <<"C","u","t","i","n","0","0","1">>, attr |-> "cutin"],
      [name |-> "VICTORY", value |-> <<"C","u","t","i","n","0","0","2">>, attr |-> "victory"],
      [name |-> "DEFEAT", value |-> <<"C","u","t","i","n","0","0","3">>, attr |-> "defeat"],
      [name |-> "VERSUS", value |-> <<"V","S","0","0","1">>, attr |-> "versus"]
   >>

\* asset_type.value.lower() of every member
LowerValues ==
    [t \in DOMAIN CharaAssetType |-> Lower(CharaAssetType[t].value)]

\* A match that returns the last member whose value is in asset_string.
match_asset_last(asset_string) ==
    LET hits == {t \in DOMAIN CharaAssetType :
                    IsSubstr(LowerValues[t], asset_string)}
    IN  IF hits = {} THEN 0
        ELSE CHOOSE t \in hits : \A u \in hits : t >= u

\* match_asset_by_string: the index in CharaAssetType of the first member
\* whose lower-cased value is in asset_string, 0 for None.
match_asset_by_string(asset_string) ==
    LET hits == {t \in DOMAIN CharaAssetType :
                    IsSubstr(LowerValues[t], asset_string)}
    IN  IF hits = {} THEN 0
        ELSE CHOOSE t \in hits : \A u \in hits : t <= u

CharaPatterns ==
    << <<"c","h","a","r","a">>,
       <<"c","h","a","r","a","n","a","m","e">>,
       <<"c","u","t","i","n">>,
       <<"v","s">> >>

PngSuffix == <<".","p","n","g">>

\* re.search(pattern + r"\d{3}\.png", name) is not None
SearchPattern(pattern, name) ==
    \E i \in 1..Len(name) :
        /\ OccursAt(pattern, name, i)
        /\ DigitsAt(name, i + Len(pattern), 3)
        /\ OccursAt(PngSuffix, name, i + Len(pattern) + 3)

\* is_character_asset
is_character_asset(name) ==
    \E p \in DOMAIN CharaPatterns : SearchPattern(CharaPatterns[p], name)

\* A get_konami_id that looks at the first "sn" of the path only.
get_konami_id_first_sn(path) ==
    LET sns == {i \in 1..Len(path) : OccursAt(<<"s","n">>, path, i)}
        first == CHOOSE i \in sns : \A j \in sns : i <= j
    IN  IF sns = {} THEN NoKonamiId
        ELSE IF DigitsAt(path, first + 2, 4)
        THEN ParseInt(SubSeq(path, first + 2, first + 5))
        ELSE NoKonamiId

\* get_konami_id: re.search(r"sn(\d{4})", path), the leftmost match
get_konami_id(path) ==
    LET hits == {i \in 1..Len(path) :
                    /\ OccursAt(<<"s","n">>, path, i)
                    /\ DigitsAt(path, i + 2, 4)}
    IN  IF hits = {} THEN NoKonamiId
        ELSE LET first == CHOOSE i \in hits : \A j \in hits : i <= j
             IN  ParseInt(SubSeq(path, first + 2, first + 5))

\* CharacterAssets(): every asset attribute None; konami_id and series are
\* not attributes yet. assets holds the attributes that are not None.
CharacterAssets == [konami_id |-> NoKonamiId, series |-> NoSeries,
                    assets |-> <<>>]

\* getattr(character, attr_name, None)
GetAsset(character, attr_name) ==
    IF attr_name \in DOMAIN character.assets
    THEN character.assets[attr_name]
    ELSE None

\* setattr(character, attr_name, value), value a bundle name
SetAsset(character, attr_name, value) ==
    [character EXCEPT !.assets =
        [a \in (DOMAIN character.assets) \cup {attr_name} |->
            IF a = attr_name THEN value ELSE character.assets[a]]]

\* CharacterAssets.set_asset_by_enum, asset_type an index in CharaAssetType
set_asset_by_enum(character, asset_type, value) ==
    SetAsset(character, CharaAssetType[asset_type].attr, value)

\* CharacterAssets.to_dict: konami_id, series when set, then the assets
\* that are not None in _ENUM_TO_ATTR order. The asset keys, which the
\* dictionary holds beside konami_id and series, are kept apart in assets.
to_dict(character) ==
    [konami_id |-> character.konami_id,
     series    |-> character.series,
     assets    |-> SelectSeq([t \in DOMAIN CharaAssetType |->
                                [k |-> CharaAssetType[t].attr,
                                 v |-> GetAsset(character,
                                                CharaAssetType[t].attr)]],
                             LAMBDA e : e.v # None)]

---------------------------------------------------------------------------
(* game_service.py *)

\* Literal paths of the source
Str_card    == <<"a","s","s","e","t","s","/","r","e","s","o","u","r","c","e","s","/","c","a","r","d","/","e","n","-","u","s","/">>
Str_sleeve  == <<"a","s","s","e","t","s","/","r","e","s","o","u","r","c","e","s","/","s","l","e","e","v","e","/">>
Str_playmat == <<"a","s","s","e","t","s","/","r","e","s","o","u","r","c","e","s","/","p","l","a","y","m","a","t","/">>

\* The "/x/" in key tests of _parse_card, in the order they are made
CardSlots ==
    << [marker |-> <<"/","s","/">>,             slot |-> "small"],
       [marker |-> <<"/","m","/">>,             slot |-> "medium"],
       [marker |-> <<"/","l","/">>,             slot |-> "large"],
       [marker |-> <<"/","m","a","s","k","/">>, slot |-> "mask"],
       [marker |-> <<"/","n","a","m","e","/">>, slot |-> "name"] >>

\* ... of _parse_sleeve and _parse_playmat
SmallMediumSlots ==
    << [marker |-> <<"/","s","/">>, slot |-> "small"],
       [marker |-> <<"/","m","/">>, slot |-> "medium"] >>

\* No substring keeps a key from being an error.
NoIgnoredMarkers == <<>>

\* The substrings that keep a key without a konami_id from being an error
IgnoredMarkers ==
    << <<"t","e","s","t">>, <<"t","e","m","p">>, <<"d","u","m","m","y">>,
       <<"o","t","h","e","r","n","a","m","e">> >>

RECURSIVE SetSlotsKeepsFirst(_, _, _, _, _)
\* Slot statements that leave a slot that is already set as it is.
SetSlotsKeepsFirst(slots, table, key, bundle, i) ==
    IF i > Len(table) THEN slots
    ELSE SetSlotsKeepsFirst(IF IsSubstr(table[i].marker, key)
                               /\ ~ HasKey(slots, table[i].slot)
                            THEN SetItem(slots, table[i].slot, bundle)
                            ELSE slots,
                            table, key, bundle, i + 1)

RECURSIVE SetSlots(_, _, _, _, _)
\* The if "/x/" in key: ids[...][m_Name][slot] = bundle statements, from
\* the i-th on
SetSlots(slots, table, key, bundle, i) ==
    IF i > Len(table) THEN slots
    ELSE SetSlots(IF IsSubstr(table[i].marker, key)
                  THEN SetItem(slots, table[i].slot, bundle)
                  ELSE slots,
                  table, key, bundle, i + 1)

RECURSIVE ParseTextures(_, _, _, _, _, _)
\* for obj in env.objects: if obj.type.name == "Texture2D": ...
\* textures are the m_Name of the Texture2D objects of env, in order.
ParseTextures(category, textures, table, key, bundle, i) ==
    IF i > Len(textures) THEN category
    ELSE LET m_Name == textures[i]
             present == IF HasKey(category, m_Name) THEN category
                        ELSE SetItem(category, m_Name, <<>>)
         IN  ParseTextures(
                 SetItem(present, m_Name,
                         SetSlots(GetItem(present, m_Name), table, key,
                                  bundle, 1)),
                 textures, table, key, bundle, i + 1)

\* GameService._parse_card
parse_card(ids, env, bundle, key) ==
    [ids EXCEPT !.card =
        ParseTextures(ids.card, env.textures, CardSlots, key, bundle, 1)]

\* GameService._parse_sleeve
parse_sleeve(ids, env, bundle, key) ==
    [ids EXCEPT !.sleeve =
        ParseTextures(ids.sleeve, env.textures, SmallMediumSlots, key,
                      bundle, 1)]

\* GameService._parse_playmat
parse_playmat(ids, env, bundle, key) ==
    [ids EXCEPT !.playmat =
        ParseTextures(ids.playmat, env.textures, SmallMediumSlots, key,
                      bundle, 1)]

\* The series a new character is given: the name of the first member of
\* CharaSeries whose check_series holds, none when no member's does.
SeriesOf(konami_id) ==
    LET hits == {s \in DOMAIN CharaSeries :
                    check_series(CharaSeries[s], konami_id)}
    IN  IF hits = {} THEN NoSeries
        ELSE CharaSeries[CHOOSE s \in hits : \A u \in hits : s <= u].name

\* Lines 174-185: a new CharacterAssets with its konami_id and series
NewCharacter(konami_id) ==
    [CharacterAssets EXCEPT !.konami_id = konami_id,
                            !.series = SeriesOf(konami_id)]

\* A search that finds no character, whatever the list holds.
FindCharacterNever(characters, konami_id) == 0

\* The index in characters of the first one with this konami_id, 0 if none
FindCharacter(characters, konami_id) ==
    LET hits == {i \in DOMAIN characters :
                    characters[i].konami_id = konami_id}
    IN  IF hits = {} THEN 0
        ELSE CHOOSE i \in hits : \A j \in hits : i <= j

\* A _parse_character_asset that passes over every key without konami_id.
parse_character_asset_lenient(ids, bundle, key) ==
    LET asset_type == match_asset_by_string(key)
        konami_id  == get_konami_id(key)
        found      == FindCharacter(ids.character, konami_id)
        listed     == IF found = 0
                      THEN Append(ids.character, NewCharacter(konami_id))
                      ELSE ids.character
        at         == IF found = 0 THEN Len(listed) ELSE found
    IN  IF asset_type = 0 \/ konami_id = NoKonamiId
        THEN [raised |-> FALSE, ids |-> ids]
        ELSE [raised |-> FALSE,
              ids |-> [ids EXCEPT !.character =
                          [listed EXCEPT ![at] =
                              set_asset_by_enum(listed[at], asset_type,
                                                bundle)]]]

\* GameService._parse_character_asset. The result is the ids after the call
\* and whether the call raised ValueError.
parse_character_asset(ids, bundle, key) ==
    LET asset_type == match_asset_by_string(key)
        konami_id  == get_konami_id(key)
        found      == FindCharacter(ids.character, konami_id)
        listed     == IF found = 0
                      THEN Append(ids.character, NewCharacter(konami_id))
                      ELSE ids.character
        at         == IF found = 0 THEN Len(listed) ELSE found
    IN  IF asset_type = 0 THEN [raised |-> FALSE, ids |-> ids]
        ELSE IF konami_id = NoKonamiId
        THEN IF ~ \E g \in DOMAIN IgnoredMarkers :
                      IsSubstr(IgnoredMarkers[g], key)
             THEN [raised |-> TRUE, ids |-> ids]
             ELSE [raised |-> FALSE, ids |-> ids]
        ELSE [raised |-> FALSE,
              ids |-> [ids EXCEPT !.character =
                          [listed EXCEPT ![at] =
                              set_asset_by_enum(listed[at], asset_type,
                                                bundle)]]]

\* A loop body that tries the sleeve marker before the card marker.
ParseKeySleeveFirst(ids, env, bundle, key) ==
    IF IsSubstr(Str_sleeve, key)
    THEN [raised |-> FALSE, ids |-> parse_sleeve(ids, env, bundle, key)]
    ELSE IF IsSubstr(Str_card, key)
    THEN [raised |-> FALSE, ids |-> parse_card(ids, env, bundle, key)]
    ELSE IF IsSubstr(Str_playmat, key)
    THEN [raised |-> FALSE, ids |-> parse_playmat(ids, env, bundle, key)]
    ELSE IF is_character_asset(key)
    THEN parse_character_asset(ids, bundle, key)
    ELSE [raised |-> FALSE, ids |-> ids]

\* The body of "for key in env.container.keys()" of get_dir_data
ParseKey(ids, env, bundle, key) ==
    IF IsSubstr(Str_card, key)
    THEN [raised |-> FALSE, ids |-> parse_card(ids, env, bundle, key)]
    ELSE IF IsSubstr(Str_sleeve, key)
    THEN [raised |-> FALSE, ids |-> parse_sleeve(ids, env, bundle, key)]
    ELSE IF IsSubstr(Str_playmat, key)
    THEN [raised |-> FALSE, ids |-> parse_playmat(ids, env, bundle, key)]
    ELSE IF is_character_asset(key)
    THEN parse_character_asset(ids, bundle, key)
    ELSE [raised |-> FALSE, ids |-> ids]

RECURSIVE ParseKeys(_, _, _)
\* for key in env.container.keys(), from the i-th key on; a raise ends it
ParseKeys(ids, env, i) ==
    IF i > Len(env.container) THEN [raised |-> FALSE, ids |-> ids]
    ELSE LET r == ParseKey(ids, env, env.bundle, env.container[i])
         IN  IF r.raised THEN r ELSE ParseKeys(r.ids, env, i + 1)

RECURSIVE ParseBundles(_, _, _)
\* for bundle in files, from the i-th file on
ParseBundles(ids, files, i) ==
    IF i > Len(files) THEN [raised |-> FALSE, ids |-> ids]
    ELSE LET r == ParseKeys(ids, files[i], 1)
         IN  IF r.raised THEN r ELSE ParseBundles(r.ids, files, i + 1)

\* GameService.get_dir_data on the files of a directory: each file is a
\* bundle, read as [bundle: its name, container: its keys in order,
\* textures: the m_Name of its Texture2D objects in order].
get_dir_data(files) == ParseBundles(get_data_wrapper, files, 1)

---------------------------------------------------------------------------
(* data_service.py: merging *)

\* A merge in which the incoming value replaces the one already there.
MergedAssetOverwrites(existing_value, new_value) ==
    IF new_value # None THEN new_value ELSE existing_value

\* Lines 140-145: the value of one asset attribute of existing_char after
\* the merge of new_char's value for it
MergedAsset(existing_value, new_value) ==
    IF new_value # None /\ existing_value = None
    THEN new_value
    ELSE existing_value

\* CharacterAssets._ENUM_TO_ATTR.values()
AttrNames == {CharaAssetType[t].attr : t \in DOMAIN CharaAssetType}

\* A merge that makes the merged character anew, with the identity and the
\* assets and without the series.
merge_character_assets_anew(existing_char, new_char) ==
    LET value(a) == MergedAsset(GetAsset(existing_char, a),
                                GetAsset(new_char, a))
        set_attrs == AttrNames \cap (DOMAIN existing_char.assets
                                      \cup DOMAIN new_char.assets)
    IN  [CharacterAssets EXCEPT
            !.konami_id = existing_char.konami_id,
            !.assets = [a \in (DOMAIN existing_char.assets
                                  \cup {b \in set_attrs : value(b) # None})
                          |-> value(a)]]

\* DataService._merge_character_assets
merge_character_assets(existing_char, new_char) ==
    LET value(a) == MergedAsset(GetAsset(existing_char, a),
                                GetAsset(new_char, a))
        \* the attributes of _ENUM_TO_ATTR that either character has set
        set_attrs == AttrNames \cap (DOMAIN existing_char.assets
                                      \cup DOMAIN new_char.assets)
    IN  [existing_char EXCEPT
            !.assets = [a \in (DOMAIN existing_char.assets
                                  \cup {b \in set_attrs : value(b) # None})
                          |-> value(a)],
            !.series = IF new_char.series # NoSeries
                          /\ existing_char.series = NoSeries
                       THEN new_char.series
                       ELSE existing_char.series]

RECURSIVE MergeCharactersFrom(_, _, _)
\* The loop of _merge_characters from the i-th new character on
MergeCharactersFrom(main_characters, new_characters, i) ==
    IF i > Len(new_characters) THEN main_characters
    ELSE LET new_char == new_characters[i]
             found    == FindCharacter(main_characters, new_char.konami_id)
         IN  MergeCharactersFrom(
                 IF found # 0
                 THEN [main_characters EXCEPT ![found] =
                          merge_character_assets(main_characters[found],
                                                 new_char)]
                 ELSE Append(main_characters, new_char),
                 new_characters, i + 1)

\* A merge that appends every new character, known or not.
merge_characters_appends(main_characters, new_characters) ==
    main_characters \o new_characters

\* DataService._merge_characters
merge_characters(main_characters, new_characters) ==
    MergeCharactersFrom(main_characters, new_characters, 1)

\* DataService.merge_data: ids after the call. (The objects of result that
\* the code shares with ids are not read again through result.)
merge_data(ids, result) ==
    [card      |-> merge_nested_dicts(ids.card, result.card),
     sleeve    |-> merge_nested_dicts(ids.sleeve, result.sleeve),
     playmat   |-> merge_nested_dicts(ids.playmat, result.playmat),
     character |-> merge_characters(ids.character, result.character)]

\* Results handed over in the order the workers finished.
ExecutorMapAsCompleted(returned, completion) ==
    [i \in 1..Len(returned) |-> returned[completion[i]]]

\* list(executor.map(self.process_dirs, dir_chunks)): the values the calls
\* returned, in the order of dir_chunks whatever order they finished in
ExecutorMap(returned, completion) ==
    [i \in 1..Len(returned) |-> returned[i]]

\* Lines 60-63: the characters as dictionaries
CharactersToDict(ids) ==
    [ids EXCEPT !.character = [i \in DOMAIN ids.character |->
                                  to_dict(ids.character[i])]]

---------------------------------------------------------------------------
(* The asset tree: the directories and the bundles in them *)

Dir_root == <<"root", FALSE>>

Files_root ==
   <<
      [bundle |-> "root0",
       container |-> << <<"a","s","s","e","t","s","/","r","e","s","o","u","r","c","e","s","/","c","a","r","d","/","e","n","-","u","s","/","s","/","9","0","0","1",".","p","n","g">> >>,
       textures |-> <<"9001">>]
   >>

Dir_a0 == <<"a0", FALSE>>

Files_a0 ==
   <<
      [bundle |-> "a0A",
       container |-> << <<"a","s","s","e","t","s","/","r","e","s","o","u","r","c","e","s","/","c","h","a","r","a","/","s","n","0","1","0","0","/","c","h","a","r","a","0","0","1",".","p","n","g">> >>,
       textures |-> <<"chara001">>],
      [bundle |-> "a0x",
       container |-> << <<"a","s","s","e","t","s","/","r","e","s","o","u","r","c","e","s","/","c","h","a","r","a","/","t","e","s","t","/","c","h","a","r","a","0","0","1",".","p","n","g">>,
                       <<"a","s","s","e","t","s","/","r","e","s","o","u","r","c","e","s","/","m","i","s","c","/","r","e","a","d","m","e",".","t","x","t">> >>,
       textures |-> <<>>],
      [bundle |-> "a0s",
       container |-> << <<"a","s","s","e","t","s","/","r","e","s","o","u","r","c","e","s","/","c","a","r","d","/","e","n","-","u","s","/","s","/","4","0","0","7",".","p","n","g">> >>,
       textures |-> <<"4007">>],
      [bundle |-> "a0m",
       container |-> << <<"a","s","s","e","t","s","/","r","e","s","o","u","r","c","e","s","/","c","a","r","d","/","e","n","-","u","s","/","m","/","4","0","0","7",".","p","n","g">> >>,
       textures |-> <<"4007">>],
      [bundle |-> "a0l",
       container |-> << <<"a","s","s","e","t","s","/","r","e","s","o","u","r","c","e","s","/","c","a","r","d","/","e","n","-","u","s","/","l","/","4","0","0","7",".","p","n","g">> >>,
       textures |-> <<"4007">>],
      [bundle |-> "a0v",
       container |-> << <<"a","s","s","e","t","s","/","r","e","s","o","u","r","c","e","s","/","s","l","e","e","v","e","/","s","/","s","l","e","e","v","e","0","1",".","p","n","g">> >>,
       textures |-> <<"sleeve01">>],
      [bundle |-> "a0p",
       container |-> << <<"a","s","s","e","t","s","/","r","e","s","o","u","r","c","e","s","/","p","l","a","y","m","a","t","/","m","/","m","a","t","0","1",".","p","n","g">> >>,
       textures |-> <<"mat01">>]
   >>

Dir_b1 == <<"b1", FALSE>>

Files_b1 ==
   <<
      [bundle |-> "b1B",
       container |-> << <<"a","s","s","e","t","s","/","r","e","s","o","u","r","c","e","s","/","c","h","a","r","a","/","s","n","0","1","0","0","/","c","h","a","r","a","0","0","1",".","p","n","g">> >>,
       textures |-> <<"chara001">>],
      [bundle |-> "b1C",
       container |-> << <<"a","s","s","e","t","s","/","r","e","s","o","u","r","c","e","s","/","c","h","a","r","a","/","s","n","0","1","0","0","/","c","h","a","r","a","0","0","2",".","p","n","g">> >>,
       textures |-> <<"chara002">>]
   >>

Dir_d3 == <<"d3", TRUE>>

Files_d3 ==
   <<
      [bundle |-> "d3s",
       container |-> << <<"a","s","s","e","t","s","/","r","e","s","o","u","r","c","e","s","/","c","a","r","d","/","e","n","-","u","s","/","s","/","4","0","0","7",".","p","n","g">> >>,
       textures |-> <<"4007">>],
      [bundle |-> "d3k",
       container |-> << <<"a","s","s","e","t","s","/","r","e","s","o","u","r","c","e","s","/","c","a","r","d","/","e","n","-","u","s","/","m","a","s","k","/","4","0","0","8",".","p","n","g">> >>,
       textures |-> <<"4008">>],
      [bundle |-> "d3v",
       container |-> << <<"a","s","s","e","t","s","/","r","e","s","o","u","r","c","e","s","/","s","l","e","e","v","e","/","s","/","s","l","e","e","v","e","0","1",".","p","n","g">> >>,
       textures |-> <<"sleeve01">>],
      [bundle |-> "d3p",
       container |-> << <<"a","s","s","e","t","s","/","r","e","s","o","u","r","c","e","s","/","p","l","a","y","m","a","t","/","m","/","m","a","t","0","1",".","p","n","g">>,
                       <<"a","s","s","e","t","s","/","r","e","s","o","u","r","c","e","s","/","p","l","a","y","m","a","t","/","s","/","m","a","t","0","1",".","p","n","g">> >>,
       textures |-> <<"mat01">>],
      [bundle |-> "d3D",
       container |-> << <<"a","s","s","e","t","s","/","r","e","s","o","u","r","c","e","s","/","c","h","a","r","a","/","s","n","0","1","0","0","/","c","h","a","r","a","0","0","2",".","p","n","g">>,
                       <<"a","s","s","e","t","s","/","r","e","s","o","u","r","c","e","s","/","c","h","a","r","a","/","s","n","9","5","0","0","/","c","u","t","i","n","0","0","1",".","p","n","g">> >>,
       textures |-> <<>>]
   >>

Dir_e4 == <<"e4", TRUE>>

Files_e4 ==
   <<
      [bundle |-> "e4l",
       container |-> << <<"a","s","s","e","t","s","/","r","e","s","o","u","r","c","e","s","/","c","a","r","d","/","e","n","-","u","s","/","l","/","4","0","0","8",".","p","n","g">> >>,
       textures |-> <<"4008">>],
      [bundle |-> "e4x",
       container |-> << <<"a","s","s","e","t","s","/","r","e","s","o","u","r","c","e","s","/","c","h","a","r","a","/","c","h","a","r","a","0","0","1",".","p","n","g">> >>,
       textures |-> <<"chara001">>]
   >>

\* The directories os.walk can list: [data_dir, is_streaming] pairs
DirMenu == {Dir_root, Dir_a0, Dir_b1, Dir_d3, Dir_e4}

\* The files of a listed directory, as os.walk and UnityPy.load give them
FilesOf(dir) ==
    IF dir = Dir_root THEN Files_root
    ELSE IF dir = Dir_a0 THEN Files_a0
    ELSE IF dir = Dir_b1 THEN Files_b1
    ELSE IF dir = Dir_d3 THEN Files_d3
    ELSE Files_e4

---------------------------------------------------------------------------
(* SpecChunk: chunkify on every list of at most MaxLst directories and    *)
(* every part count 1..MaxN.                                               *)

ChunkItems == {<<"a0", FALSE>>, <<"b1", TRUE>>}

ChunkIdle ==
    /\ c_lst = <<>>
    /\ c_n = 1
    /\ c_chunks = <<>>
    /\ c_pc = "off"

InitChunk ==
    /\ c_lst \in SeqsUpTo(ChunkItems, MaxLst)
    /\ c_n \in 1..MaxN
    /\ c_chunks = <<>>
    /\ c_pc = "call"

CallChunkify ==
    /\ c_pc = "call"
    /\ c_chunks' = chunkify(c_lst, c_n)
    /\ c_pc' = "returned"
    /\ UNCHANGED <<c_lst, c_n>>
    /\ UNCHANGED <<seriesVars, pipeVars, cardVars, keyVars, runVars,
                   dirVars, mergeVars>>


---------------------------------------------------------------------------
(* SpecSeries: lines 174-185 of _parse_character_asset, the creation of a *)
(* character record, for every konami_id get_konami_id can return.        *)

\* The largest value of four digits
MaxKonamiId == 9999

SeriesIdle ==
    /\ s_konami_id = 0
    /\ s_character = <<>>

InitSeries ==
    /\ s_konami_id \in 0..MaxKonamiId
    /\ s_character = <<>>

CreateCharacter ==
    /\ s_character = <<>>
    /\ s_character' = <<NewCharacter(s_konami_id)>>
    /\ UNCHANGED s_konami_id
    /\ UNCHANGED <<chunkVars, pipeVars, cardVars, keyVars, runVars,
                   dirVars, mergeVars>>

---------------------------------------------------------------------------
(* Spec: DataService.get_ids with its pool of NUM_THREADS workers, each    *)
(* running process_dirs on one chunk.                                      *)

Workers == 1..NUM_THREADS

\* self.game_service.get_dir_data(data_dir, is_streaming) for each directory
\* of the tree: the scan reads nothing but the directory's files.
ScanOf == [dir \in DirMenu |-> get_dir_data(FilesOf(dir))]

NoFile == <<>>

PipeOwnIdle ==
    /\ all_dirs = <<>>
    /\ NUM_THREADS = 1
    /\ dir_chunks = <<>>
    /\ w_state = <<>>
    /\ w_i = <<>>
    /\ w_pc = <<>>
    /\ w_read = <<>>
    /\ local_ids = <<>>
    /\ processed = 0
    /\ finished = <<>>
    /\ results = <<>>
    /\ g_ids = get_data_wrapper
    /\ g_merged = 0
    /\ g_pc = "off"

PipeIdle == PipeOwnIdle /\ ids_json = NoFile

\* DataService() and the listing of the asset tree (lines 31-35, 43-48)
InitPipe ==
    /\ all_dirs \in SeqsUpTo(DirMenu, MaxDirs)
    /\ NUM_THREADS \in 1..MaxThreads
    /\ dir_chunks = <<>>
    /\ w_state = <<>>
    /\ w_i = <<>>
    /\ w_pc = <<>>
    /\ w_read = <<>>
    /\ local_ids = <<>>
    /\ processed = 0
    /\ finished = <<>>
    /\ results = <<>>
    /\ g_ids = get_data_wrapper
    /\ g_merged = 0
    /\ g_pc = "start"
    /\ ids_json = NoFile

\* get_ids, lines 39-53: the chunks are made and one call of process_dirs
\* per chunk is submitted to the pool
GetIdsSubmit ==
    /\ g_pc = "start"
    /\ dir_chunks' = chunkify(all_dirs, NUM_THREADS)
    /\ w_state' = [w \in Workers |-> "pending"]
    /\ w_i' = [w \in Workers |-> 1]
    /\ w_pc' = [w \in Workers |-> "dir"]
    /\ w_read' = [w \in Workers |-> 0]
    /\ local_ids' = [w \in Workers |-> get_data_wrapper]
    /\ g_pc' = "map"
    /\ UNCHANGED <<all_dirs, NUM_THREADS, processed, finished, results,
                   g_ids, g_merged, ids_json>>
    /\ UNCHANGED <<chunkVars, seriesVars, cardVars, keyVars, runVars,
                   dirVars, mergeVars>>

\* A pool thread takes the call for chunk w: process_dirs line 79
WorkerStart(w) ==
    /\ w_state[w] = "pending"
    /\ w_state' = [w_state EXCEPT ![w] = "running"]
    /\ UNCHANGED <<all_dirs, NUM_THREADS, dir_chunks, w_i, w_pc, w_read,
                   local_ids, processed, finished, results, g_ids, g_merged,
                   g_pc, ids_json>>
    /\ UNCHANGED <<chunkVars, seriesVars, cardVars, keyVars, runVars,
                   dirVars, mergeVars>>

\* process_dirs lines 80-83 for the next directory of the chunk: "root" is
\* passed over; any other is scanned and merged into local_ids, or the scan
\* raises and the call ends with the exception.
WorkerScan(w) ==
    /\ w_state[w] = "running"
    /\ w_pc[w] = "dir"
    /\ w_i[w] <= Len(dir_chunks[w])
    /\ LET dir == dir_chunks[w][w_i[w]]
           dir_ids == ScanOf[dir]
       IN  IF dir[1] = "root"
           THEN /\ w_i' = [w_i EXCEPT ![w] = @ + 1]
                /\ UNCHANGED <<w_state, w_pc, local_ids, finished>>
           ELSE IF dir_ids.raised
           THEN /\ w_state' = [w_state EXCEPT ![w] = "failed"]
                /\ finished' = Append(finished, w)
                /\ UNCHANGED <<w_i, w_pc, local_ids>>
           ELSE /\ local_ids' = [local_ids EXCEPT ![w] =
                                    merge_data(@, dir_ids.ids)]
                /\ w_pc' = [w_pc EXCEPT ![w] = "load"]
                /\ UNCHANGED <<w_state, w_i, finished>>
    /\ UNCHANGED <<all_dirs, NUM_THREADS, dir_chunks, w_read, processed,
                   results, g_ids, g_merged, g_pc, ids_json>>
    /\ UNCHANGED <<chunkVars, seriesVars, cardVars, keyVars, runVars,
                   dirVars, mergeVars>>

\* self.processed += 1, line 84: the read of self.processed ...
WorkerLoad(w) ==
    /\ w_state[w] = "running"
    /\ w_pc[w] = "load"
    /\ w_read' = [w_read EXCEPT ![w] = processed]
    /\ w_pc' = [w_pc EXCEPT ![w] = "store"]
    /\ UNCHANGED <<all_dirs, NUM_THREADS, dir_chunks, w_state, w_i,
                   local_ids, processed, finished, results, g_ids, g_merged,
                   g_pc, ids_json>>
    /\ UNCHANGED <<chunkVars, seriesVars, cardVars, keyVars, runVars,
                   dirVars, mergeVars>>

\* ... and the write of the value read plus one
WorkerStore(w) ==
    /\ w_state[w] = "running"
    /\ w_pc[w] = "store"
    /\ processed' = w_read[w] + 1
    /\ w_pc' = [w_pc EXCEPT ![w] = "dir"]
    /\ w_i' = [w_i EXCEPT ![w] = @ + 1]
    /\ UNCHANGED <<all_dirs, NUM_THREADS, dir_chunks, w_state, w_read,
                   local_ids, finished, results, g_ids, g_merged, g_pc,
                   ids_json>>
    /\ UNCHANGED <<chunkVars, seriesVars, cardVars, keyVars, runVars,
                   dirVars, mergeVars>>

\* return local_ids, line 86
WorkerReturn(w) ==
    /\ w_state[w] = "running"
    /\ w_pc[w] = "dir"
    /\ w_i[w] > Len(dir_chunks[w])
    /\ w_state' = [w_state EXCEPT ![w] = "done"]
    /\ finished' = Append(finished, w)
    /\ UNCHANGED <<all_dirs, NUM_THREADS, dir_chunks, w_i, w_pc, w_read,
                   local_ids, processed, results, g_ids, g_merged, g_pc,
                   ids_json>>
    /\ UNCHANGED <<chunkVars, seriesVars, cardVars, keyVars, runVars,
                   dirVars, mergeVars>>

\* The list is made of the calls that ended, the failed ones left out.
AllEnded(states) ==
    \A w \in DOMAIN states : states[w] \in {"done", "failed"}

\* list(executor.map(...)) has the result of every call: each one returned
AllReturned(states) ==
    \A w \in DOMAIN states : states[w] = "done"

\* Line 53: every call has returned and list(executor.map(...)) is complete
MapReturns ==
    /\ g_pc = "map"
    /\ AllReturned(w_state)
    /\ results' = ExecutorMap(local_ids, finished)
    /\ g_merged' = 0
    /\ g_pc' = "merge"
    /\ UNCHANGED <<all_dirs, NUM_THREADS, dir_chunks, w_state, w_i, w_pc,
                   w_read, local_ids, processed, finished, g_ids, ids_json>>
    /\ UNCHANGED <<chunkVars, seriesVars, cardVars, keyVars, runVars,
                   dirVars, mergeVars>>

\* Line 53: the iteration over the results, in chunk order, reaches a call
\* that raised; executor.map cancels the calls no thread has taken yet.
MapRaises ==
    /\ g_pc = "map"
    /\ \E w \in Workers :
          /\ w_state[w] = "failed"
          /\ \A v \in 1..(w - 1) : w_state[v] = "done"
    /\ w_state' = [w \in Workers |->
                      IF w_state[w] = "pending" THEN "cancelled"
                      ELSE w_state[w]]
    /\ g_pc' = "shutdown"
    /\ UNCHANGED <<all_dirs, NUM_THREADS, dir_chunks, w_i, w_pc, w_read,
                   local_ids, processed, finished, results, g_ids, g_merged,
                   ids_json>>
    /\ UNCHANGED <<chunkVars, seriesVars, cardVars, keyVars, runVars,
                   dirVars, mergeVars>>

\* Line 52: leaving the with block waits for the running calls, and then
\* the exception leaves get_ids
GetIdsRaises ==
    /\ g_pc = "shutdown"
    /\ \A w \in Workers : w_state[w] \in {"done", "failed", "cancelled"}
    /\ g_pc' = "raised"
    /\ UNCHANGED <<all_dirs, NUM_THREADS, dir_chunks, w_state, w_i, w_pc,
                   w_read, local_ids, processed, finished, results, g_ids,
                   g_merged, ids_json>>
    /\ UNCHANGED <<chunkVars, seriesVars, cardVars, keyVars, runVars,
                   dirVars, mergeVars>>

\* Lines 55-57: one turn of "for result in results"
MergeResult ==
    /\ g_pc = "merge"
    /\ g_merged < Len(results)
    /\ g_ids' = merge_data(g_ids, results[g_merged + 1])
    /\ g_merged' = g_merged + 1
    /\ UNCHANGED <<all_dirs, NUM_THREADS, dir_chunks, w_state, w_i, w_pc,
                   w_read, local_ids, processed, finished, results, g_pc,
                   ids_json>>
    /\ UNCHANGED <<chunkVars, seriesVars, cardVars, keyVars, runVars,
                   dirVars, mergeVars>>

\* Lines 60-66: the characters become dictionaries and ids.json is written
DumpIds ==
    /\ g_pc = "merge"
    /\ g_merged = Len(results)
    /\ g_ids' = CharactersToDict(g_ids)
    /\ ids_json' = <<CharactersToDict(g_ids)>>
    /\ g_pc' = "done"
    /\ UNCHANGED <<all_dirs, NUM_THREADS, dir_chunks, w_state, w_i, w_pc,
                   w_read, local_ids, processed, finished, results,
                   g_merged>>
    /\ UNCHANGED <<chunkVars, seriesVars, cardVars, keyVars, runVars,
                   dirVars, mergeVars>>

---------------------------------------------------------------------------
(* SpecCard: DataService.get_card_data on a drawn ids.json and a drawn    *)
(* card metadata (the provider's answer and the CardModel table).         *)

Str_alt == <<" ","(","a","l","t"," ">>

RECURSIVE Str(_)
\* str(n) of an integer n >= 0, its decimal digits
Str(n) == IF n < 10 THEN <<Digits[n + 1]>>
          ELSE Str(n \div 10) \o <<Digits[(n % 10) + 1]>>

\* A suffix that adds nothing to the name.
AltSuffixEmpty(count) == <<>>

\* f" (alt {alt_count})"
AltSuffix(count) == Str_alt \o Str(count) \o <<")">>

\* The loop condition never holds: no name is ever seen as taken.
NameTakenNever(card_out, name) == FALSE

\* Line 245, name in out_wrapper["card"]
NameTaken(card_out, name) == HasKey(card_out, name)

\* Only small and medium are asked for.
HasSizesSmallMedium(data) == {"small", "medium"} \subseteq KeySet(data)

\* Line 227, {"small", "medium", "large"}.issubset(set(data.keys()))
HasSizes(data) == {"small", "medium", "large"} \subseteq KeySet(data)

\* An entry whose medium and large are taken from each other's slot.
CardEntrySwapped(card, data) ==
    << [k |-> "small",  v |-> GetItem(data, "small")],
       [k |-> "medium", v |-> GetItem(data, "large")],
       [k |-> "large",  v |-> GetItem(data, "medium")],
       [k |-> "id",     v |-> card] >>

\* Lines 249-254, the value stored under the name
CardEntry(card, data) ==
    << [k |-> "small",  v |-> GetItem(data, "small")],
       [k |-> "medium", v |-> GetItem(data, "medium")],
       [k |-> "large",  v |-> GetItem(data, "large")],
       [k |-> "id",     v |-> card] >>

\* Display names of the metadata
Name_Kuriboh      == <<"K","u","r","i","b","o","h">>
Name_Kuriboh_alt1 == <<"K","u","r","i","b","o","h"," ","(","a","l","t"," ","1",")">>
Name_Empty        == <<>>

\* A CardModel row, or the absence of one, for one konami_id
NoRow == [row |-> FALSE, name |-> Name_Empty]
Row(name) == [row |-> TRUE, name |-> name]

\* The texture names of the cards of ids.json, in its order of insertion,
\* and the bundles the scan can have found for each
CardKeys == <<"4007", "4008", "4009", "4010", "4011">>

CardBundles(card) ==
    [small |-> card \o "s", medium |-> card \o "m", large |-> card \o "l",
     mask |-> card \o "k"]

\* The slots of a card's record in ids.json, by what the scan found
CardData(card, shape) ==
    LET b == CardBundles(card)
    IN  IF shape = "full"
        THEN << [k |-> "small", v |-> b.small], [k |-> "medium", v |-> b.medium],
                [k |-> "large", v |-> b.large] >>
        ELSE IF shape = "no_large"
        THEN << [k |-> "small", v |-> b.small], [k |-> "medium", v |-> b.medium],
                [k |-> "mask", v |-> b.mask] >>
        ELSE IF shape = "no_medium"
        THEN << [k |-> "large", v |-> b.large], [k |-> "small", v |-> b.small] >>
        ELSE << [k |-> "medium", v |-> b.medium], [k |-> "large", v |-> b.large] >>

\* What is drawn for one card: the shape of its record and its metadata
CardOptions ==
    {[shape |-> "full", meta |-> m] :
        m \in {NoRow, Row(Name_Empty), Row(Name_Kuriboh),
               Row(Name_Kuriboh_alt1)}}
    \cup {[shape |-> s, meta |-> Row(Name_Kuriboh)] :
             s \in {"no_large", "no_medium", "no_small"}}

\* A card of the provider that the scan never finds
OtherRow == [k |-> "9999", v |-> <<"D","a","r","k">>]

\* The CardModel rows made of the provider's metadata (ygopro_service.py
\* lines 39-50), keyed by konami_id written as the card's texture name
RowsOf(cards, choice) ==
    LET with_row == SelectSeq([i \in DOMAIN cards |-> i],
                              LAMBDA i : choice[i].meta.row)
    IN  [j \in DOMAIN with_row |->
            [k |-> cards[with_row[j]], v |-> choice[with_row[j]].meta.name]]

\* What the provider can answer with a status that is not 200
ApiTexts == {"Service Unavailable", "Too Many Requests"}

\* YGOProService.get_card_data line 33, the message of a failed request
FailureMessage(text) == "Failed to get metadata for cards: " \o text

\* An exception that does not say what the provider answered.
RaisedMessageBare(message) == "Failed to get card data from YGOPRO"

\* get_card_data line 217, the message of the Exception
RaisedMessage(message) == "Failed to get card data from YGOPRO: " \o message

CardIdle ==
    /\ api_rows = <<>>
    /\ api_ok = TRUE
    /\ api_text = ""
    /\ k_error = ""
    /\ db = <<>>
    /\ k_requests = 0
    /\ out_wrapper = get_data_wrapper
    /\ k_i = 0
    /\ k_name = <<>>
    /\ k_alt_count = 0
    /\ k_pc = "off"
    /\ data_json = NoFile

InitCard ==
    /\ \E len \in 0..MaxCards :
       \E choice \in [1..len -> CardOptions] :
          LET cards == SubSeq(CardKeys, 1, len)
          IN  /\ ids_json =
                    << [card      |-> [i \in 1..len |->
                                          [k |-> cards[i],
                                           v |-> CardData(cards[i],
                                                          choice[i].shape)]],
                        sleeve    |-> <<>>,
                        playmat   |-> <<>>,
                        character |-> <<>>] >>
              /\ api_rows = Append(RowsOf(cards, choice), OtherRow)
    /\ api_ok \in BOOLEAN
    /\ api_text \in ApiTexts
    /\ k_error = ""
    /\ db \in {<<>>, api_rows}
    /\ k_requests = 0
    /\ out_wrapper = get_data_wrapper
    /\ k_i = 0
    /\ k_name = <<>>
    /\ k_alt_count = 0
    /\ k_pc = "start"
    /\ data_json = NoFile

\* ids["card"] as get_card_data reads it from ids.json
IdsCards == ids_json[1].card

\* YGOProService.get_card_data line 27-28: the table has rows already;
\* then get_card_data lines 216-224
FetchCached ==
    /\ k_pc = "start"
    /\ Len(db) > 0
    /\ k_pc' = "open"
    /\ UNCHANGED k_i
    /\ UNCHANGED <<api_rows, api_ok, api_text, k_error, db, k_requests,
                   out_wrapper, k_name, k_alt_count, data_json>>
    /\ UNCHANGED <<chunkVars, seriesVars, pipeVars, keyVars, runVars,
                   dirVars, mergeVars>>

\* YGOProService.get_card_data lines 30-52: the table is empty, the request
\* is answered with status 200 and the rows are stored
FetchOk ==
    /\ k_pc = "start"
    /\ Len(db) = 0
    /\ api_ok
    /\ k_requests' = k_requests + 1
    /\ db' = api_rows
    /\ k_pc' = "open"
    /\ UNCHANGED k_i
    /\ UNCHANGED <<api_rows, api_ok, api_text, k_error, out_wrapper, k_name,
                   k_alt_count, data_json>>
    /\ UNCHANGED <<chunkVars, seriesVars, pipeVars, keyVars, runVars,
                   dirVars, mergeVars>>

\* YGOProService.get_card_data lines 30-33 and get_card_data lines 216-217:
\* the request fails and get_card_data raises
FetchFails ==
    /\ k_pc = "start"
    /\ Len(db) = 0
    /\ ~ api_ok
    /\ k_requests' = k_requests + 1
    /\ k_error' = RaisedMessage(FailureMessage(api_text))
    /\ k_pc' = "raised"
    /\ UNCHANGED <<api_rows, api_ok, api_text, db, out_wrapper, k_i, k_name,
                   k_alt_count, data_json>>
    /\ UNCHANGED <<chunkVars, seriesVars, pipeVars, keyVars, runVars,
                   dirVars, mergeVars>>

\* get_card_data lines 223-224: ids.json is there, it is opened and loaded
OpenIds ==
    /\ k_pc = "open"
    /\ ids_json # NoFile
    /\ k_pc' = "loop"
    /\ k_i' = 1
    /\ UNCHANGED <<api_rows, api_ok, api_text, k_error, db, k_requests,
                   out_wrapper, k_name, k_alt_count, data_json>>
    /\ UNCHANGED <<chunkVars, seriesVars, pipeVars, keyVars, runVars,
                   dirVars, mergeVars>>

\* get_card_data line 223: there is no ids.json and open raises
\* FileNotFoundError
OpenIdsFails ==
    /\ k_pc = "open"
    /\ ids_json = NoFile
    /\ k_pc' = "no_file"
    /\ k_error' = "No such file or directory: './etl/services/temp/ids.json'"
    /\ UNCHANGED <<api_rows, api_ok, api_text, db, k_requests, out_wrapper,
                   k_i, k_name, k_alt_count, data_json>>
    /\ UNCHANGED <<chunkVars, seriesVars, pipeVars, keyVars, runVars,
                   dirVars, mergeVars>>

\* session.query(CardModel).filter(CardModel.konami_id == card).first()
\* has a row, and its name is not empty
HasName(card) == HasKey(db, card) /\ GetItem(db, card) # Name_Empty

\* Lines 226-237, 241: a card without the three sizes, without a CardModel
\* row or with an empty name is passed over
SkipCard ==
    /\ k_pc = "loop"
    /\ k_i <= Len(IdsCards)
    /\ ~ (HasSizes(IdsCards[k_i].v) /\ HasName(IdsCards[k_i].k))
    /\ k_i' = k_i + 1
    /\ UNCHANGED <<api_rows, api_ok, api_text, k_error, db, k_requests,
                   out_wrapper, k_name, k_alt_count, k_pc, data_json>>
    /\ UNCHANGED <<chunkVars, seriesVars, pipeVars, keyVars, runVars,
                   dirVars, mergeVars>>

\* Lines 226-242: name = pro_card.name; k_alt_count = 1
TakeCard ==
    /\ k_pc = "loop"
    /\ k_i <= Len(IdsCards)
    /\ HasSizes(IdsCards[k_i].v)
    /\ HasName(IdsCards[k_i].k)
    /\ k_name' = GetItem(db, IdsCards[k_i].k)
    /\ k_alt_count' = 1
    /\ k_pc' = "while"
    /\ UNCHANGED <<api_rows, api_ok, api_text, k_error, db, k_requests,
                   out_wrapper, k_i, data_json>>
    /\ UNCHANGED <<chunkVars, seriesVars, pipeVars, keyVars, runVars,
                   dirVars, mergeVars>>

\* Lines 245-247: one turn of the while loop
AddSuffix ==
    /\ k_pc = "while"
    /\ NameTaken(out_wrapper.card, k_name)
    /\ k_name' = k_name \o AltSuffix(k_alt_count)
    /\ k_alt_count' = k_alt_count + 1
    /\ UNCHANGED <<api_rows, api_ok, api_text, k_error, db, k_requests,
                   out_wrapper, k_i, k_pc, data_json>>
    /\ UNCHANGED <<chunkVars, seriesVars, pipeVars, keyVars, runVars,
                   dirVars, mergeVars>>

\* Lines 249-254: the loop is left and the entry is stored under the name
EmitCard ==
    /\ k_pc = "while"
    /\ ~ NameTaken(out_wrapper.card, k_name)
    /\ out_wrapper' = [out_wrapper EXCEPT !.card =
                          SetItem(@, k_name,
                                  CardEntry(IdsCards[k_i].k,
                                            IdsCards[k_i].v))]
    /\ k_i' = k_i + 1
    /\ k_pc' = "loop"
    /\ UNCHANGED <<api_rows, api_ok, api_text, k_error, db, k_requests,
                   k_name, k_alt_count, data_json>>
    /\ UNCHANGED <<chunkVars, seriesVars, pipeVars, keyVars, runVars,
                   dirVars, mergeVars>>

\* Lines 258-263: the other categories are copied and data.json is written
WriteDataJson ==
    /\ k_pc = "loop"
    /\ k_i > Len(IdsCards)
    /\ out_wrapper' = [out_wrapper EXCEPT
                          !.playmat = ids_json[1].playmat,
                          !.sleeve = ids_json[1].sleeve,
                          !.character = ids_json[1].character]
    /\ data_json' = <<out_wrapper'>>
    /\ k_pc' = "done"
    /\ UNCHANGED <<api_rows, api_ok, api_text, k_error, db, k_requests, k_i,
                   k_name, k_alt_count>>
    /\ UNCHANGED <<chunkVars, seriesVars, pipeVars, keyVars, runVars,
                   dirVars, mergeVars>>

---------------------------------------------------------------------------
(* SpecKey: one container key, handed to match_asset_by_string, to        *)
(* get_konami_id, or to the body of get_dir_data's loop over the keys.    *)

\* The directories of a key: a character directory, one of test
\* fixtures, and the card directory
KeyRoots ==
    { <<"r","e","s","/","c","h","a","r","a","/">>,
      <<"r","e","s","/","t","e","s","t","/">>,
      <<"a","s","s","e","t","s","/","r","e","s","o","u","r","c","e","s","/","c","a","r","d","/","e","n","-","u","s","/","s","/">> }

\* What stands for the character in a key
KeyIds ==
    { <<>>,
      <<"s","n","0","4","1","1","/">>,
      <<"s","n","1","2","/","s","n","0","4","1","1","/">>,
      <<"s","n","0","4","1","1","2","/">>,
      <<"s","n","0","4","1","/">>,
      <<"S","N","0","4","1","1","/">>,
      <<"s","n","0","0","0","0","/">>,
      <<"d","u","m","m","y","/">>,
      <<"o","t","h","e","r","n","a","m","e","/">> }

\* File names that are not a member's lower-cased value + ".png"
OtherFiles ==
    { <<"c","h","a","r","a","9","9","9",".","p","n","g">>,
      <<"C","h","a","r","a","0","0","1",".","p","n","g">>,
      <<"r","e","a","d","m","e",".","t","x","t">>,
      <<"c","h","a","r","a","0","0","4","_","1","/","c","h","a","r","a","9","9","9",".","p","n","g">>,
      <<"c","h","a","r","a","0","0","3","_","1","0","/","c","u","t","i","n","0","0","1",".","p","n","g">> }

\* The file names: every member's lower-cased value + ".png", and the others
KeyFiles ==
    {Lower(CharaAssetType[t].value) \o PngSuffix : t \in DOMAIN CharaAssetType}
    \cup OtherFiles

\* Keys of a sleeve and of a playmat, keys with the markers of two
\* families, and sleeve and playmat keys that name a character's file
OtherFamilyKeys ==
    { Str_sleeve \o <<"s","/","v",".","p","n","g">>,
      Str_playmat \o <<"m","/","p",".","p","n","g">>,
      Str_sleeve \o Str_card \o <<"s","/","c",".","p","n","g">>,
      Str_playmat \o Str_sleeve \o <<"m","/","v",".","p","n","g">>,
      Str_sleeve \o <<"s","n","0","4","1","1","/","c","h","a","r","a","0","0","1",".","p","n","g">>,
      Str_playmat \o <<"s","/","c","h","a","r","a","0","0","1",".","p","n","g">> }

\* The keys env.container can hold
KeyMenu ==
    {r \o i \o f : r \in KeyRoots, i \in KeyIds, f \in KeyFiles}
    \cup OtherFamilyKeys

\* The bundle the key is read from and the Texture2D objects of its env
KeyEnv == [bundle |-> "k1B", container |-> <<>>, textures |-> <<"4007">>]

\* The ids the scan has built before the key: nothing, or character 411
\* with its icon and the small slot of card 4007
KeyIdsBefore ==
    { get_data_wrapper,
      [get_data_wrapper EXCEPT
          !.character = <<SetAsset(NewCharacter(411), "icon", "k0A")>>,
          !.card = << [k |-> "4007", v |-> << [k |-> "small", v |-> "k0s"] >>] >>] }

KeyIdle ==
    /\ p_key = <<>>
    /\ p_ids = get_data_wrapper
    /\ p_asset_type = 0
    /\ p_konami_id = NoKonamiId
    /\ p_raised = FALSE
    /\ p_before = get_data_wrapper
    /\ p_pc = "off"

InitKey ==
    /\ p_key \in KeyMenu
    /\ p_ids \in KeyIdsBefore
    /\ p_before = p_ids
    /\ p_asset_type = 0
    /\ p_konami_id = NoKonamiId
    /\ p_raised = FALSE
    /\ p_pc = "key"

\* asset_type = match_asset_by_string(key)
CallMatchAsset ==
    /\ p_pc = "key"
    /\ p_asset_type' = match_asset_by_string(p_key)
    /\ p_pc' = "matched"
    /\ UNCHANGED <<p_key, p_ids, p_before, p_konami_id, p_raised>>
    /\ UNCHANGED <<chunkVars, seriesVars, pipeVars, cardVars, runVars,
                   dirVars, mergeVars>>

\* konami_id = get_konami_id(key)
CallGetKonamiId ==
    /\ p_pc = "key"
    /\ p_konami_id' = get_konami_id(p_key)
    /\ p_pc' = "identified"
    /\ UNCHANGED <<p_key, p_ids, p_before, p_asset_type, p_raised>>
    /\ UNCHANGED <<chunkVars, seriesVars, pipeVars, cardVars, runVars,
                   dirVars, mergeVars>>

\* get_dir_data lines 47-60 on the key: it is parsed into ids, passed over,
\* or _parse_character_asset raises
ScanKey ==
    /\ p_pc = "key"
    /\ LET r == ParseKey(p_ids, KeyEnv, KeyEnv.bundle, p_key)
       IN  /\ p_ids' = r.ids
           /\ p_raised' = r.raised
           /\ p_pc' = IF r.raised THEN "raised" ELSE "scanned"
    /\ UNCHANGED <<p_key, p_before, p_asset_type, p_konami_id>>
    /\ UNCHANGED <<chunkVars, seriesVars, pipeVars, cardVars, runVars,
                   dirVars, mergeVars>>

---------------------------------------------------------------------------
(* SpecDir: GameService.get_dir_data on a drawn directory of bundles with *)
(* card, sleeve and playmat keys.                                         *)

\* Keys of env.container: a card's small, medium and large image, a card
\* key with /s/ and /m/ in it, a sleeve's small and a playmat's medium
Key_card_s    == Str_card \o <<"s","/","c",".","p","n","g">>
Key_card_m    == Str_card \o <<"m","/","c",".","p","n","g">>
Key_card_l    == Str_card \o <<"l","/","c",".","p","n","g">>
Key_card_sm   == Str_card \o <<"s","/","m","/","c",".","p","n","g">>
Key_sleeve_s  == Str_sleeve \o <<"s","/","v",".","p","n","g">>
Key_playmat_m == Str_playmat \o <<"m","/","p",".","p","n","g">>

\* The containers a bundle of the directory can have
DirContainers ==
    { <<>>, <<Key_card_s>>, <<Key_card_m>>, <<Key_card_l>>, <<Key_card_sm>>,
      <<Key_card_s, Key_card_m>>, <<Key_sleeve_s>>, <<Key_playmat_m>> }

\* The m_Name of the Texture2D objects a bundle can have
DirTextures == { <<"4007">>, <<"4008">>, <<"4007", "4008">> }

\* The file names of the directory, in the order os.walk lists them
DirBundles == <<"f1", "f2", "f3", "f4", "f5">>

DirIdle ==
    /\ d_files = <<>>
    /\ d_result = [raised |-> FALSE, ids |-> get_data_wrapper]
    /\ d_pc = "off"

\* The files of the directory (get_dir_data lines 40-46)
InitDir ==
    /\ \E len \in 0..MaxFiles :
       \E containers \in [1..len -> DirContainers] :
       \E textures \in [1..len -> DirTextures] :
          d_files = [i \in 1..len |->
                        [bundle    |-> DirBundles[i],
                         container |-> containers[i],
                         textures  |-> textures[i]]]
    /\ d_result = [raised |-> FALSE, ids |-> get_data_wrapper]
    /\ d_pc = "call"

\* ids = get_dir_data(data_dir, is_streaming), lines 39-62
CallGetDirData ==
    /\ d_pc = "call"
    /\ d_result' = get_dir_data(d_files)
    /\ d_pc' = "returned"
    /\ UNCHANGED d_files
    /\ UNCHANGED <<chunkVars, seriesVars, pipeVars, cardVars, keyVars,
                   runVars, mergeVars>>

---------------------------------------------------------------------------
(* SpecMerge: merge_nested_dicts on the objects of one image category.    *)
(* The accumulator starts empty (get_data_wrapper) and the partials come  *)
(* in one after the other, each made of dicts of its own; the merge       *)
(* stores the incoming partial's dicts in the accumulator and writes      *)
(* into the accumulator's dicts, so the dicts are kept by address.        *)

\* The m_Name the partials can hold
MergeNames == <<"4007", "4008">>

\* What a partial can hold for one texture name: nothing, a dict without
\* slots, or a dict with small, with medium or with both
MergeShapes ==
    {<<"absent">>, <<>>, <<"small">>, <<"medium">>, <<"small", "medium">>,
     <<"medium", "small">>}

\* The bundle the n-th partial has in its slots
MergeBundles == <<"p1", "p2", "p3", "p4">>

\* The slot dict of the shape, with the n-th partial's bundle
ShapeDict(shape, n) ==
    [j \in DOMAIN shape |-> [k |-> shape[j], v |-> MergeBundles[n]]]

\* The texture names of a partial whose shapes are drawn, in order
NamesHeld(shapes) ==
    SelectSeq(MergeNames,
              LAMBDA name : \E j \in DOMAIN MergeNames :
                               /\ MergeNames[j] = name
                               /\ shapes[j] # <<"absent">>)

\* The shape drawn for a texture name
ShapeOf(shapes, name) ==
    shapes[CHOOSE j \in DOMAIN MergeNames : MergeNames[j] = name]

\* The content of a texture name -> address dict: texture name -> slots
Deref(heap, d) == [i \in DOMAIN d |-> [k |-> d[i].k, v |-> heap[d[i].v]]]

MergeIdle ==
    /\ m_heap = <<>>
    /\ m_dict1 = <<>>
    /\ m_dict2 = <<>>
    /\ m_before1 = <<>>
    /\ m_before2 = <<>>
    /\ m_merges = 0
    /\ m_pc = "off"

\* ids = get_data_wrapper(): the category of the accumulator is empty
InitMerge ==
    /\ m_heap = <<>>
    /\ m_dict1 = <<>>
    /\ m_dict2 = <<>>
    /\ m_before1 = <<>>
    /\ m_before2 = <<>>
    /\ m_merges = 0
    /\ m_pc = "idle"

\* A partial comes in (data_service.py lines 55-57, 82-83): its dicts are
\* new objects
ReceivePartial ==
    /\ m_pc \in {"idle", "merged"}
    /\ m_merges < MaxMerges
    /\ \E shapes \in [DOMAIN MergeNames -> MergeShapes] :
          LET names == NamesHeld(shapes)
              made  == [j \in DOMAIN names |->
                           ShapeDict(ShapeOf(shapes, names[j]),
                                     m_merges + 1)]
          IN  /\ m_heap' = m_heap \o made
              /\ m_dict2' = [j \in DOMAIN names |->
                                [k |-> names[j], v |-> Len(m_heap) + j]]
              /\ m_before2' = [j \in DOMAIN names |->
                                  [k |-> names[j], v |-> made[j]]]
    /\ m_before1' = Deref(m_heap, m_dict1)
    /\ m_merges' = m_merges + 1
    /\ m_pc' = "call"
    /\ UNCHANGED m_dict1
    /\ UNCHANGED <<chunkVars, seriesVars, pipeVars, cardVars, keyVars,
                   runVars, dirVars>>

\* A merge of two slot dicts that writes into the incoming one.
MergeSlotsIntoIncoming(heap, addr1, addr2) ==
    [heap EXCEPT ![addr2] = MergeItems(heap[addr2], heap[addr1], 1, 1)]

\* util.py line 64, merge_nested_dicts(dict1[key], value) on two slot
\* dicts: the dict at addr1 is written, with the items of the one at addr2
MergeSlots(heap, addr1, addr2) ==
    [heap EXCEPT ![addr1] = MergeItems(heap[addr1], heap[addr2], 1, 1)]

RECURSIVE MergeObjects(_, _, _, _)
\* util.py lines 61-69 on the objects, from item i of dict2 on: the result
\* is the heap and dict1 after the loop. dict1[key] = value of line 68
\* stores the incoming dict itself.
MergeObjects(heap, dict1, dict2, i) ==
    IF i > Len(dict2) THEN [heap |-> heap, dict1 |-> dict1]
    ELSE LET key   == dict2[i].k
             value == dict2[i].v
         IN  IF HasKey(dict1, key)
             THEN MergeObjects(MergeSlots(heap, GetItem(dict1, key), value),
                               dict1, dict2, i + 1)
             ELSE MergeObjects(heap, SetItem(dict1, key, value), dict2,
                               i + 1)

\* ids[category] = merge_nested_dicts(ids[category], result[category])
\* (data_service.py lines 95-97)
CallMergeNestedDicts ==
    /\ m_pc = "call"
    /\ LET r == MergeObjects(m_heap, m_dict1, m_dict2, 1)
       IN  /\ m_heap' = r.heap
           /\ m_dict1' = r.dict1
    /\ m_pc' = "merged"
    /\ UNCHANGED <<m_dict2, m_before1, m_before2, m_merges>>
    /\ UNCHANGED <<chunkVars, seriesVars, pipeVars, cardVars, keyVars,
                   runVars, dirVars>>

---------------------------------------------------------------------------
(* SpecRun: one run of the steps, by main.py or by the window of          *)
(* gui_main.py, on a disk that an earlier run may have left an ids.json   *)
(* on. The steps are get_ids and get_card_data; the window's two later    *)
(* steps (write_data, remove_temp_files) come after them and are left     *)
(* out.                                                                   *)

\* gui_main.py lines 125-130, the steps that are modelled
RunSteps == {"get_ids", "get_card_data"}

\* The directories the listing of a run is drawn from: one that is scanned
\* to the end and one whose scan raises
RunDirMenu == {Dir_a0, Dir_e4}

\* The CardModel rows of a run
RunRows ==
    << [k |-> "4007", v |-> Name_Kuriboh], [k |-> "4010", v |-> Name_Kuriboh],
       [k |-> "4011", v |-> Name_Kuriboh], OtherRow >>

\* The ids.json an earlier run wrote (data_service.py lines 65-66; main.py
\* lines 50-51 leave it on the disk)
StaleIds ==
    [card      |-> << [k |-> "4009", v |-> CardData("4009", "no_large")],
                      [k |-> "4010", v |-> CardData("4010", "full")],
                      [k |-> "4011", v |-> CardData("4011", "full")] >>,
     sleeve    |-> <<>>,
     playmat   |-> <<>>,
     character |-> <<>>]

RunIdle ==
    /\ r_entry = "main"
    /\ r_checked = [s \in RunSteps |-> TRUE]
    /\ r_pc = "off"

\* main.py lines 32-39 take every step; the window's checkboxes
\* (gui_main.py lines 131-140) let the user take any of them
InitRun ==
    /\ r_entry \in {"main", "gui"}
    /\ r_checked \in [RunSteps -> BOOLEAN]
    /\ r_entry = "main" => \A s \in RunSteps : r_checked[s]
    /\ r_pc = "begin"

\* DataService() before any step is called
InitRunPipe ==
    /\ all_dirs \in SeqsUpTo(RunDirMenu, MaxDirs)
    /\ NUM_THREADS \in 1..MaxThreads
    /\ dir_chunks = <<>>
    /\ w_state = <<>>
    /\ w_i = <<>>
    /\ w_pc = <<>>
    /\ w_read = <<>>
    /\ local_ids = <<>>
    /\ processed = 0
    /\ finished = <<>>
    /\ results = <<>>
    /\ g_ids = get_data_wrapper
    /\ g_merged = 0
    /\ g_pc = "off"
    /\ ids_json \in {NoFile, <<StaleIds>>}

\* The provider and the CardModel table before any step is called
InitRunCard ==
    /\ api_rows = RunRows
    /\ api_ok \in BOOLEAN
    /\ api_text = "Service Unavailable"
    /\ k_error = ""
    /\ db \in {<<>>, RunRows}
    /\ k_requests = 0
    /\ out_wrapper = get_data_wrapper
    /\ k_i = 0
    /\ k_name = <<>>
    /\ k_alt_count = 0
    /\ k_pc = "off"
    /\ data_json = NoFile

\* The call of get_ids returns as soon as its work is submitted
GetIdsSubmitted == g_pc \in {"map", "merge", "done"}

\* data_service.get_ids() has returned: main.py line 35, gui_main.py
\* line 233. The with block of get_ids (line 52) has joined the pool.
GetIdsReturned == g_pc = "done"

\* main.py line 35; gui_main.py lines 269-271 with "Get IDs" checked
StartGetIds ==
    /\ r_pc = "begin"
    /\ r_checked["get_ids"]
    /\ g_pc' = "start"
    /\ r_pc' = "get_ids"
    /\ UNCHANGED <<all_dirs, NUM_THREADS, dir_chunks, w_state, w_i, w_pc,
                   w_read, local_ids, processed, finished, results, g_ids,
                   g_merged, ids_json>>
    /\ UNCHANGED <<chunkVars, seriesVars, cardVars, keyVars, r_entry,
                   r_checked, dirVars, mergeVars>>

\* gui_main.py lines 269-270 with "Get IDs" not checked
PassGetIds ==
    /\ r_pc = "begin"
    /\ ~ r_checked["get_ids"]
    /\ r_pc' = "next"
    /\ UNCHANGED <<chunkVars, seriesVars, pipeVars, cardVars, keyVars,
                   r_entry, r_checked, dirVars, mergeVars>>

\* main.py lines 35-36, gui_main.py lines 233-234: get_ids returns
GetIdsReturns ==
    /\ r_pc = "get_ids"
    /\ GetIdsReturned
    /\ r_pc' = "next"
    /\ UNCHANGED <<chunkVars, seriesVars, pipeVars, cardVars, keyVars,
                   r_entry, r_checked, dirVars, mergeVars>>

\* The exception of get_ids ends main.py at line 35, and in the window it
\* leaves the loop over the steps (gui_main.py lines 269-277)
GetIdsAborts ==
    /\ r_pc = "get_ids"
    /\ g_pc = "raised"
    /\ r_pc' = "aborted"
    /\ UNCHANGED <<chunkVars, seriesVars, pipeVars, cardVars, keyVars,
                   r_entry, r_checked, dirVars, mergeVars>>

\* main.py line 39; gui_main.py lines 269-271 with "Get Card Names" checked
StartGetCardData ==
    /\ r_pc = "next"
    /\ r_checked["get_card_data"]
    /\ k_pc' = "start"
    /\ r_pc' = "get_card_data"
    /\ UNCHANGED <<api_rows, api_ok, api_text, k_error, db, k_requests,
                   out_wrapper, k_i, k_name, k_alt_count, data_json>>
    /\ UNCHANGED <<chunkVars, seriesVars, pipeVars, keyVars, r_entry,
                   r_checked, dirVars, mergeVars>>

\* gui_main.py lines 269-270 with "Get Card Names" not checked
PassGetCardData ==
    /\ r_pc = "next"
    /\ ~ r_checked["get_card_data"]
    /\ r_pc' = "finished"
    /\ UNCHANGED <<chunkVars, seriesVars, pipeVars, cardVars, keyVars,
                   r_entry, r_checked, dirVars, mergeVars>>

\* main.py lines 39-40, gui_main.py lines 239-240: get_card_data returns
GetCardDataReturns ==
    /\ r_pc = "get_card_data"
    /\ k_pc = "done"
    /\ r_pc' = "finished"
    /\ UNCHANGED <<chunkVars, seriesVars, pipeVars, cardVars, keyVars,
                   r_entry, r_checked, dirVars, mergeVars>>

\* The exception of get_card_data ends main.py at line 39 and the window's
\* loop over the steps (gui_main.py lines 274-277)
GetCardDataAborts ==
    /\ r_pc = "get_card_data"
    /\ k_pc \in {"raised", "no_file"}
    /\ r_pc' = "aborted"
    /\ UNCHANGED <<chunkVars, seriesVars, pipeVars, cardVars, keyVars,
                   r_entry, r_checked, dirVars, mergeVars>>

---------------------------------------------------------------------------
(* The specifications *)

NextChunk == CallChunkify

InitSpecChunk ==
    /\ InitChunk
    /\ SeriesIdle
    /\ PipeIdle
    /\ CardIdle
    /\ KeyIdle
    /\ RunIdle
    /\ DirIdle
    /\ MergeIdle

SpecChunk == InitSpecChunk /\ [][NextChunk]_vars

NextSeries == CreateCharacter

InitSpecSeries ==
    /\ ChunkIdle
    /\ InitSeries
    /\ PipeIdle
    /\ CardIdle
    /\ KeyIdle
    /\ RunIdle
    /\ DirIdle
    /\ MergeIdle

SpecSeries == InitSpecSeries /\ [][NextSeries]_vars

Next ==
    \/ GetIdsSubmit
    \/ \E w \in DOMAIN w_state : WorkerStart(w)
    \/ \E w \in DOMAIN w_state : WorkerScan(w)
    \/ \E w \in DOMAIN w_state : WorkerLoad(w)
    \/ \E w \in DOMAIN w_state : WorkerStore(w)
    \/ \E w \in DOMAIN w_state : WorkerReturn(w)
    \/ MapReturns
    \/ MapRaises
    \/ GetIdsRaises
    \/ MergeResult
    \/ DumpIds

Init ==
    /\ ChunkIdle
    /\ SeriesIdle
    /\ InitPipe
    /\ CardIdle
    /\ KeyIdle
    /\ RunIdle
    /\ DirIdle
    /\ MergeIdle

Spec == Init /\ [][Next]_vars

NextCard ==
    \/ FetchCached
    \/ FetchOk
    \/ FetchFails
    \/ OpenIds
    \/ SkipCard
    \/ TakeCard
    \/ AddSuffix
    \/ EmitCard
    \/ WriteDataJson

InitSpecCard ==
    /\ ChunkIdle
    /\ SeriesIdle
    /\ PipeOwnIdle
    /\ InitCard
    /\ KeyIdle
    /\ RunIdle
    /\ DirIdle
    /\ MergeIdle

SpecCard == InitSpecCard /\ [][NextCard]_vars

\* get_card_data runs in one thread, which goes on to its next statement
\* as long as there is one
SpecCardFair == InitSpecCard /\ [][NextCard]_vars /\ WF_vars(NextCard)

NextKey ==
    \/ CallMatchAsset
    \/ CallGetKonamiId
    \/ ScanKey

InitSpecKey ==
    /\ ChunkIdle
    /\ SeriesIdle
    /\ PipeIdle
    /\ CardIdle
    /\ InitKey
    /\ RunIdle
    /\ DirIdle
    /\ MergeIdle

SpecKey == InitSpecKey /\ [][NextKey]_vars

NextRun ==
    \/ StartGetIds
    \/ PassGetIds
    \/ GetIdsReturns
    \/ GetIdsAborts
    \/ StartGetCardData
    \/ PassGetCardData
    \/ GetCardDataReturns
    \/ GetCardDataAborts
    \/ OpenIdsFails
    \/ Next
    \/ NextCard

InitSpecRun ==
    /\ ChunkIdle
    /\ SeriesIdle
    /\ InitRunPipe
    /\ InitRunCard
    /\ KeyIdle
    /\ InitRun
    /\ DirIdle
    /\ MergeIdle

SpecRun == InitSpecRun /\ [][NextRun]_vars

NextDir == CallGetDirData

InitSpecDir ==
    /\ ChunkIdle
    /\ SeriesIdle
    /\ PipeIdle
    /\ CardIdle
    /\ KeyIdle
    /\ RunIdle
    /\ InitDir
    /\ MergeIdle

SpecDir == InitSpecDir /\ [][NextDir]_vars

NextMerge ==
    \/ ReceivePartial
    \/ CallMergeNestedDicts

InitSpecMerge ==
    /\ ChunkIdle
    /\ SeriesIdle
    /\ PipeIdle
    /\ CardIdle
    /\ KeyIdle
    /\ RunIdle
    /\ DirIdle
    /\ InitMerge

SpecMerge == InitSpecMerge /\ [][NextMerge]_vars

---------------------------------------------------------------------------
(* Claims *)

\* C1: for every list and every n >= 1 (n > len(lst) included) chunkify
\* returns exactly n chunks, any two chunk sizes differ by at most 1, and the
\* chunks joined in index order are the list itself.
C1_ChunkifyPartitions ==
    c_pc = "returned" =>
        /\ Len(c_chunks) = c_n
        /\ \A i, j \in 1..Len(c_chunks) :
              Len(c_chunks[i]) - Len(c_chunks[j]) \in {-1, 0, 1}
        /\ Concat(c_chunks) = c_lst

\* chunkify has returned for a non-empty list shorter than the part count.
C1_Witness ==
    /\ c_pc = "returned"
    /\ Len(c_lst) = 3
    /\ c_n = 4
    /\ c_chunks[4] = <<>>
    /\ c_chunks[3] = <<c_lst[3]>>

RECURSIVE SequentialScan(_, _, _)
\* process_dirs run alone on a chunk: the directories other than "root"
\* scanned and merged one after the other
SequentialScan(local, chunk, i) ==
    IF i > Len(chunk) THEN local
    ELSE SequentialScan(IF chunk[i][1] = "root" THEN local
                        ELSE merge_data(local, ScanOf[chunk[i]].ids),
                        chunk, i + 1)

RECURSIVE SequentialMerge(_, _, _)
\* The chunks scanned and merged one after the other, in chunk order
SequentialMerge(acc, chunks, i) ==
    IF i > Len(chunks) THEN acc
    ELSE SequentialMerge(
             merge_data(acc, SequentialScan(get_data_wrapper, chunks[i], 1)),
             chunks, i + 1)

\* The dataset a run without any concurrency ends with
SequentialDataset(dirs, n) ==
    CharactersToDict(SequentialMerge(get_data_wrapper, chunkify(dirs, n), 1))

\* C2: whatever order the workers finish in, get_ids merges result i of
\* chunk i at the i-th turn, so the merged dataset (the three mappings and
\* the character list, order included) is the one function of the directory
\* list and the worker count that a sequential run computes.
C2_MergeInChunkOrder ==
    /\ g_pc \in {"merge", "done"} =>
          /\ Len(results) = NUM_THREADS
          /\ \A i \in 1..Len(results) : results[i] = local_ids[i]
    /\ g_pc = "done" =>
          /\ g_ids = SequentialDataset(all_dirs, NUM_THREADS)
          /\ ids_json = <<g_ids>>

\* The run is over, the second worker finished before the first, and the
\* two returned different partial results that both hold something.
C2_Witness ==
    /\ g_pc = "done"
    /\ finished = <<2, 1>>
    /\ local_ids[1] # local_ids[2]
    /\ local_ids[1].character # <<>>
    /\ local_ids[2].character # <<>>
    /\ local_ids[1].card # <<>>
    /\ local_ids[2].card # <<>>

ImageCategories == {"card", "sleeve", "playmat"}

\* A role slot of a texture name is set in a category mapping
SlotIsSet(category, m_Name, slot) ==
    /\ HasKey(category, m_Name)
    /\ HasKey(GetItem(category, m_Name), slot)

SlotValue(category, m_Name, slot) == GetItem(GetItem(category, m_Name), slot)

\* The texture names and the slots that occur in the results
NamesIn(cat) ==
    UNION {KeySet(results[i][cat]) : i \in DOMAIN results}

SlotsIn(cat) ==
    UNION {UNION {KeySet(results[i][cat][j].v) :
                     j \in DOMAIN results[i][cat]} : i \in DOMAIN results}

MaxOf(S) == CHOOSE x \in S : \A y \in S : y <= x
MinOf(S) == CHOOSE x \in S : \A y \in S : x <= y

\* C3: the image-category merge is last-wins. After the first m results are
\* merged, a slot is set in ids exactly when one of them set it, and it
\* holds the value of the highest-index one that set it: the incoming
\* partial's value replaces the accumulator's.
C3_ImageMergeLastWins ==
    g_pc \in {"merge", "done"} =>
        \A cat \in ImageCategories :
            /\ KeySet(g_ids[cat]) \subseteq NamesIn(cat)
            /\ \A t \in NamesIn(cat) : \A s \in SlotsIn(cat) :
                  LET setters == {i \in 1..g_merged :
                                     SlotIsSet(results[i][cat], t, s)}
                  IN  /\ SlotIsSet(g_ids[cat], t, s) <=> setters # {}
                      /\ setters # {} =>
                            SlotValue(g_ids[cat], t, s) =
                            SlotValue(results[MaxOf(setters)][cat], t, s)

\* Two chunks gave different values to the small slot of card 4007, of
\* sleeve01 and to the medium slot of mat01, and both are merged.
C3_Witness ==
    /\ g_pc = "done"
    /\ Len(results) = 2
    /\ SlotIsSet(results[1].card, "4007", "small")
    /\ SlotIsSet(results[2].card, "4007", "small")
    /\ SlotValue(results[1].card, "4007", "small") = "a0s"
    /\ SlotValue(results[2].card, "4007", "small") = "d3s"
    /\ SlotValue(g_ids.card, "4007", "small") = "d3s"
    /\ SlotValue(g_ids.card, "4007", "medium") = "a0m"
    /\ SlotValue(g_ids.sleeve, "sleeve01", "small") = "d3v"
    /\ SlotValue(g_ids.playmat, "mat01", "medium") = "d3p"

\* The konami_id of the characters of the results
IdentitiesIn ==
    UNION {{results[i].character[j].konami_id :
               j \in DOMAIN results[i].character} : i \in DOMAIN results}

\* Result i has a character of this konami_id with this attribute set
AssetIsSet(characters, konami_id, attr) ==
    \E j \in DOMAIN characters :
        /\ characters[j].konami_id = konami_id
        /\ attr \in DOMAIN characters[j].assets

AssetValue(characters, konami_id, attr) ==
    characters[CHOOSE j \in DOMAIN characters :
                   characters[j].konami_id = konami_id].assets[attr]

\* The same on the list of dictionaries get_ids leaves in ids at its end
DictAssetIsSet(characters, konami_id, attr) ==
    \E j \in DOMAIN characters :
        /\ characters[j].konami_id = konami_id
        /\ HasKey(characters[j].assets, attr)

DictAssetValue(characters, konami_id, attr) ==
    GetItem(characters[CHOOSE j \in DOMAIN characters :
                           characters[j].konami_id = konami_id].assets, attr)

\* C4: the character merge is first-wins. After the first m results are
\* merged, an asset slot of an identity is set in ids exactly when one of
\* them set it, and it holds the value of the lowest-index one that set it:
\* a later value only fills a slot that is still unset.
C4_CharacterMergeFirstWins ==
    /\ g_pc = "merge" =>
          \A id \in IdentitiesIn : \A a \in AttrNames :
              LET setters == {i \in 1..g_merged :
                                 AssetIsSet(results[i].character, id, a)}
              IN  /\ AssetIsSet(g_ids.character, id, a) <=> setters # {}
                  /\ setters # {} =>
                        AssetValue(g_ids.character, id, a) =
                        AssetValue(results[MinOf(setters)].character, id, a)
    /\ g_pc = "done" =>
          \A id \in IdentitiesIn : \A a \in AttrNames :
              LET setters == {i \in DOMAIN results :
                                 AssetIsSet(results[i].character, id, a)}
              IN  /\ DictAssetIsSet(g_ids.character, id, a) <=> setters # {}
                  /\ setters # {} =>
                        DictAssetValue(g_ids.character, id, a) =
                        AssetValue(results[MinOf(setters)].character, id, a)

\* Two chunks give the select slot of character 100 different values and
\* only the second gives it an icon: the first one's select stays and the
\* second one's icon fills the unset slot.
C4_Witness ==
    /\ g_pc = "done"
    /\ Len(results) = 2
    /\ AssetIsSet(results[1].character, 100, "select")
    /\ AssetIsSet(results[2].character, 100, "select")
    /\ AssetValue(results[1].character, 100, "select") = "d3D"
    /\ AssetValue(results[2].character, 100, "select") = "b1C"
    /\ AssetValue(results[2].character, 100, "icon") = "b1B"
    /\ DictAssetValue(g_ids.character, 100, "select") = "d3D"
    /\ DictAssetValue(g_ids.character, 100, "icon") = "b1B"

\* What a worker found for a character: the assets of its record in the
\* local_ids the worker returned
Found(w, konami_id, assets) ==
    \E j \in DOMAIN local_ids[w].character :
        /\ local_ids[w].character[j].konami_id = konami_id
        /\ local_ids[w].character[j].assets = assets

\* C5: with two workers, worker A (chunk 0) having found character 100 with
\* icon = bundleA (a0A) and worker B (chunk 1) character 100 with
\* icon = bundleB (b1B) and select = bundleC (b1C), the dataset get_ids ends
\* with holds exactly one record for 100, with icon a0A and select b1C,
\* in whatever order the two finished.
C5_TwoWorkersScenario ==
    ( /\ g_pc = "done"
      /\ NUM_THREADS = 2
      /\ Found(1, 100, [a \in {"icon"} |-> "a0A"])
      /\ Found(2, 100, [a \in {"icon", "select"} |->
                          IF a = "icon" THEN "b1B" ELSE "b1C"]) )
    => /\ Cardinality({j \in DOMAIN g_ids.character :
                          g_ids.character[j].konami_id = 100}) = 1
       /\ \A j \in DOMAIN g_ids.character :
             g_ids.character[j].konami_id = 100 =>
                g_ids.character[j].assets =
                   << [k |-> "icon", v |-> "a0A"],
                      [k |-> "select", v |-> "b1C"] >>
       /\ \A j \in DOMAIN ids_json[1].character :
             ids_json[1].character[j] = g_ids.character[j]

\* The scenario, with worker B finished before worker A
C5_Witness ==
    /\ g_pc = "done"
    /\ NUM_THREADS = 2
    /\ finished = <<2, 1>>
    /\ Found(1, 100, [a \in {"icon"} |-> "a0A"])
    /\ Found(2, 100, [a \in {"icon", "select"} |->
                        IF a = "icon" THEN "b1B" ELSE "b1C"])
    /\ Len(g_ids.character) = 1

\* The positions in ids["card"] of the candidates: the cards that have the
\* three sizes and a non-empty display name in the CardModel table
Candidates ==
    SelectSeq([i \in DOMAIN IdsCards |-> i],
              LAMBDA i : /\ {"small", "medium", "large"}
                               \subseteq KeySet(IdsCards[i].v)
                         /\ HasKey(db, IdsCards[i].k)
                         /\ GetItem(db, IdsCards[i].k) # <<>>)

\* The candidates the loop has gone past
CandidatesBefore(i) == SelectSeq(Candidates, LAMBDA c : c < i)

\* N + " (alt k)" as the claim writes it
Alt(m_Name, k) == m_Name \o <<" ", "(", "a", "l", "t", " ">> \o Str(k)
                         \o <<")">>

\* C6: when every candidate resolves to the same display name N, the first
\* is emitted as N and the k-th further one as exactly N + " (alt k)":
\* [Kuriboh, Kuriboh, Kuriboh] gives
\* [Kuriboh, Kuriboh (alt 1), Kuriboh (alt 2)].
C6_CountedSuffixes ==
    ( /\ k_pc = "done"
      /\ \A j \in DOMAIN Candidates :
            GetItem(db, IdsCards[Candidates[j]].k) =
            GetItem(db, IdsCards[Candidates[1]].k) )
    => /\ Len(out_wrapper.card) = Len(Candidates)
       /\ \A j \in DOMAIN Candidates :
             out_wrapper.card[j].k =
                IF j = 1 THEN GetItem(db, IdsCards[Candidates[1]].k)
                ELSE Alt(GetItem(db, IdsCards[Candidates[1]].k), j - 1)

\* Three cards named Kuriboh have been reconciled: the third one's key is
\* the second one's with a further suffix.
C6_Witness ==
    /\ k_pc = "done"
    /\ Len(Candidates) = 3
    /\ \A j \in 1..3 : GetItem(db, IdsCards[Candidates[j]].k) = Name_Kuriboh
    /\ out_wrapper.card[1].k = Name_Kuriboh
    /\ out_wrapper.card[2].k = Alt(Name_Kuriboh, 1)
    /\ out_wrapper.card[3].k = Alt(Name_Kuriboh, 1) \o AltSuffix(2)

\* C7: the emitted keys are pairwise distinct, there are as many entries as
\* candidates gone past (cards with the three sizes and a non-empty display
\* name), and no step changes or removes an entry emitted earlier.
C7_NoEntryLost ==
    /\ [](k_pc \in {"loop", "while", "done"} =>
            /\ \A i, j \in DOMAIN out_wrapper.card :
                  i # j => out_wrapper.card[i].k # out_wrapper.card[j].k
            /\ Len(out_wrapper.card) = Len(CandidatesBefore(k_i)))
    /\ [][ /\ Len(out_wrapper.card') >= Len(out_wrapper.card)
           /\ \A j \in DOMAIN out_wrapper.card :
                 out_wrapper.card'[j] = out_wrapper.card[j] ]_vars

\* Three candidates are emitted, one of them under a display name that is
\* the suffixed form of another's.
C7_Witness ==
    /\ k_pc = "done"
    /\ Len(Candidates) = 3
    /\ Len(out_wrapper.card) = 3
    /\ GetItem(db, "4007") = Name_Kuriboh
    /\ GetItem(db, "4008") = Name_Kuriboh_alt1
    /\ GetItem(db, "4009") = Name_Kuriboh
    /\ GetItem(out_wrapper.card[2].v, "id") = "4008"
    /\ out_wrapper.card[2].k = Name_Kuriboh_alt1
    /\ GetItem(out_wrapper.card[3].v, "id") = "4009"

\* The card the loop is at lacks one of small, medium, large
LacksASize ==
    /\ k_pc = "loop"
    /\ k_i <= Len(IdsCards)
    /\ ~ ({"small", "medium", "large"} \subseteq KeySet(IdsCards[k_i].v))

\* C8: a card whose record lacks one of small, medium, large emits no entry
\* and has no effect on the names of the other cards: the loop only moves
\* on to the next card, the entries and the table staying as they are; and
\* every entry emitted comes of a card whose record has the three.
C8_OnlyThreeSizes ==
    /\ [][ LacksASize =>
              /\ out_wrapper' = out_wrapper
              /\ db' = db
              /\ k_pc' = "loop"
              /\ k_i' = k_i + 1 ]_vars
    /\ [](\A j \in DOMAIN out_wrapper.card :
             \E i \in DOMAIN IdsCards :
                /\ IdsCards[i].k = GetItem(out_wrapper.card[j].v, "id")
                /\ {"small", "medium", "large"}
                      \subseteq KeySet(IdsCards[i].v))

\* A card named Kuriboh without its large slot stood between two complete
\* cards named Kuriboh, and the second of them took the first suffix.
C8_Witness ==
    /\ k_pc = "done"
    /\ Len(IdsCards) = 3
    /\ ~ HasKey(IdsCards[2].v, "large")
    /\ HasKey(IdsCards[2].v, "small")
    /\ HasKey(IdsCards[2].v, "medium")
    /\ GetItem(db, IdsCards[2].k) = Name_Kuriboh
    /\ Len(out_wrapper.card) = 2
    /\ out_wrapper.card[1].k = Name_Kuriboh
    /\ out_wrapper.card[2].k = Alt(Name_Kuriboh, 1)
    /\ GetItem(out_wrapper.card[2].v, "id") = IdsCards[3].k

\* The position of a card in ids["card"]
PositionOf(card) == CHOOSE i \in DOMAIN IdsCards : IdsCards[i].k = card

\* C9: every entry has the four fields small, medium, large and id, id is
\* the card the entry was made from and the three bundles are those of that
\* card's record; the entries are in the order of their cards in
\* ids["card"]; data.json receives them as they are.
C9_EntryCarriesItsCard ==
    /\ \A j \in DOMAIN out_wrapper.card :
          LET entry == out_wrapper.card[j].v
              id    == GetItem(entry, "id")
          IN  /\ [f \in DOMAIN entry |-> entry[f].k] =
                    <<"small", "medium", "large", "id">>
              /\ HasKey(IdsCards, id)
              /\ \A size \in {"small", "medium", "large"} :
                    /\ HasKey(GetItem(IdsCards, id), size)
                    /\ GetItem(entry, size) =
                       GetItem(GetItem(IdsCards, id), size)
    /\ \A i, j \in DOMAIN out_wrapper.card :
          i < j => PositionOf(GetItem(out_wrapper.card[i].v, "id")) <
                   PositionOf(GetItem(out_wrapper.card[j].v, "id"))
    /\ k_pc = "done" => data_json = <<out_wrapper>>
                        /\ data_json[1].card = out_wrapper.card

\* The first card has no row in the table; the two after it are emitted
\* with their own bundles, in their order.
C9_Witness ==
    /\ k_pc = "done"
    /\ Len(IdsCards) = 3
    /\ ~ HasKey(db, "4007")
    /\ Len(out_wrapper.card) = 2
    /\ out_wrapper.card[1].v =
          << [k |-> "small", v |-> "4008s"], [k |-> "medium", v |-> "4008m"],
             [k |-> "large", v |-> "4008l"], [k |-> "id", v |-> "4008"] >>
    /\ GetItem(out_wrapper.card[2].v, "id") = "4009"
    /\ GetItem(out_wrapper.card[2].v, "large") = "4009l"

\* The series whose range of a hundred holds the identity, by the claim's
\* own arithmetic
SeriesByRange(i) ==
    {s \in DOMAIN CharaSeries :
        /\ CharaSeries[s].value < 9000
        /\ CharaSeries[s].value <= i
        /\ i < CharaSeries[s].value + 100}

\* C10: the series given to a new character of identity i is the one of
\* value v < 9000 with v <= i < v + 100, and no other; from 9000 on it is
\* NON_PLAYABLE; 450 is ZEXAL, 500 is ARC_V, 9500 is NON_PLAYABLE.
C10_SeriesByRange ==
    s_character # <<>> =>
        LET series == s_character[1].series
        IN  /\ \A s \in SeriesByRange(s_konami_id) :
                  series = CharaSeries[s].name
            /\ \A s \in DOMAIN CharaSeries :
                  (series = CharaSeries[s].name /\ CharaSeries[s].value < 9000)
                      => s \in SeriesByRange(s_konami_id)
            /\ s_konami_id >= 9000 => series = "NON_PLAYABLE"
            /\ s_konami_id = 450 => series = "ZEXAL"
            /\ s_konami_id = 500 => series = "ARC_V" /\ series # "ZEXAL"
            /\ s_konami_id = 9500 => series = "NON_PLAYABLE"

\* The character of the boundary identity 500 is made.
C10_Witness ==
    /\ s_character # <<>>
    /\ s_konami_id = 500
    /\ s_character[1].konami_id = 500
    /\ s_character[1].series = "ARC_V"

\* C11: classification is total: a new character of any identity 0..9999 is
\* given a series, the first range of a hundred that holds the identity,
\* and NON_PLAYABLE whenever no such range holds it.
C11_SeriesTotal ==
    s_character # <<>> =>
        LET series == s_character[1].series
            ranges == SeriesByRange(s_konami_id)
        IN  /\ series # NoSeries
            /\ ranges # {} =>
                  series = CharaSeries[MinOf(ranges)].name
            /\ ranges = {} => series = "NON_PLAYABLE"

\* The character of identity 1000 is made, and it has no series.
C11_Witness ==
    /\ s_character # <<>>
    /\ s_konami_id = 1000
    /\ s_character[1].konami_id = 1000
    /\ s_character[1].series = NoSeries

\* The members whose lower-cased value is a substring of the path
MarkersIn(path) ==
    {t \in DOMAIN CharaAssetType : IsSubstr(LowerValues[t], path)}

\* C12: match_asset_by_string returns the first member, in declaration
\* order, whose lower-cased value is a substring of the path, and None
\* exactly when no member's is.
C12_FirstMarkerInTableOrder ==
    p_pc = "matched" =>
        /\ p_asset_type = 0 <=> MarkersIn(p_key) = {}
        /\ p_asset_type # 0 =>
              /\ p_asset_type \in MarkersIn(p_key)
              /\ \A u \in MarkersIn(p_key) : p_asset_type <= u

\* A path that holds the values of DUEL_1, DUEL_10 and CUTIN is matched
\* to DUEL_1, the first of them.
C12_Witness ==
    /\ p_pc = "matched"
    /\ Cardinality(MarkersIn(p_key)) = 3
    /\ \E t \in MarkersIn(p_key) : CharaAssetType[t].name = "CUTIN"
    /\ \E t \in MarkersIn(p_key) : CharaAssetType[t].name = "DUEL_10"
    /\ CharaAssetType[p_asset_type].name = "DUEL_1"

\* One member's lower-cased value is a proper substring of the other's
ProperSubMarker(a, b) ==
    /\ LowerValues[a] # LowerValues[b]
    /\ IsSubstr(LowerValues[a], LowerValues[b])

\* Whenever a value is a proper substring of another, the longer is
\* declared first
LongerMarkerFirst ==
    \A a, b \in DOMAIN CharaAssetType : ProperSubMarker(a, b) => b < a

\* C13: a value that is a proper substring of another comes after it in
\* the table, so a path that holds the longer value (Chara003_10,
\* Chara004_1) is not matched to the member of the shorter one
\* (Chara003_1, Chara004).
C13_LongerMarkerWins ==
    p_pc = "matched" =>
        /\ LongerMarkerFirst
        /\ \A a, b \in MarkersIn(p_key) :
              ProperSubMarker(a, b) => p_asset_type # a

\* A path with chara004_1 in it, the value of EVENT, is matched to WORLD.
C13_Witness ==
    /\ p_pc = "matched"
    /\ \E t \in MarkersIn(p_key) : CharaAssetType[t].name = "EVENT"
    /\ CharaAssetType[p_asset_type].name = "WORLD"

\* The positions of the path where "sn" stands with four digits after it
SnOccurrences(path) ==
    {i \in 1..(Len(path) - 5) :
        /\ path[i] = "s"
        /\ path[i + 1] = "n"
        /\ \A j \in 2..5 : path[i + j] \in
              {"0", "1", "2", "3", "4", "5", "6", "7", "8", "9"}}

\* C14: get_konami_id returns the number written by the four digits after
\* the first "sn" that has four digits after it (sn0411 gives 411), and
\* None when the path has no such "sn".
C14_IdentityOfFirstSn ==
    p_pc = "identified" =>
        /\ p_konami_id = NoKonamiId <=> SnOccurrences(p_key) = {}
        /\ SnOccurrences(p_key) # {} =>
              LET i == MinOf(SnOccurrences(p_key))
              IN  p_konami_id = 1000 * DigitValue(p_key[i + 2])
                                + 100 * DigitValue(p_key[i + 3])
                                + 10 * DigitValue(p_key[i + 4])
                                + DigitValue(p_key[i + 5])
        /\ (SnOccurrences(p_key) # {} /\
            SubSeq(p_key, MinOf(SnOccurrences(p_key)),
                   MinOf(SnOccurrences(p_key)) + 5)
               = <<"s", "n", "0", "4", "1", "1">>) => p_konami_id = 411

\* The path has sn12 before sn0411, and 411 is returned.
C14_Witness ==
    /\ p_pc = "identified"
    /\ IsSubstr(<<"s", "n", "1", "2", "/", "s", "n", "0", "4", "1", "1">>, p_key)
    /\ p_konami_id = 411

\* The key is none of a card, a sleeve or a playmat, and is_character_asset
\* holds of it: get_dir_data hands it to _parse_character_asset
PassesGate(key) ==
    /\ ~ IsSubstr(Str_card, key)
    /\ ~ IsSubstr(Str_sleeve, key)
    /\ ~ IsSubstr(Str_playmat, key)
    /\ is_character_asset(key)

\* The key has one of test, temp, dummy, othername in it
HasNoise(key) ==
    \/ IsSubstr(<<"t", "e", "s", "t">>, key)
    \/ IsSubstr(<<"t", "e", "m", "p">>, key)
    \/ IsSubstr(<<"d", "u", "m", "m", "y">>, key)
    \/ IsSubstr(<<"o", "t", "h", "e", "r", "n", "a", "m", "e">>, key)

\* The scan of the key is over
KeyScanned == p_pc \in {"scanned", "raised"}

\* C15 as stated: every key that passes the gate, has no identity and no
\* noise marker makes the scan raise.
C15_NoIdentityRaises ==
    ( /\ KeyScanned
      /\ PassesGate(p_key)
      /\ SnOccurrences(p_key) = {}
      /\ ~ HasNoise(p_key) )
    => p_raised

\* C15, amended: a key that passes the gate, holds the value of a member
\* of CharaAssetType, has no identity and no noise marker makes the scan
\* raise, ids being left as it was; the scan raises for no other key, and
\* a key of that kind that holds no member's value is passed over.
C15_NoIdentityOfKnownAssetRaises ==
    KeyScanned =>
        /\ p_raised <=> ( /\ PassesGate(p_key)
                          /\ MarkersIn(p_key) # {}
                          /\ SnOccurrences(p_key) = {}
                          /\ ~ HasNoise(p_key) )
        /\ p_raised <=> p_pc = "raised"
        /\ p_raised => p_ids = p_before

\* The scan of res/chara/chara001.png has raised.
C15_Witness ==
    /\ p_pc = "raised"
    /\ p_raised
    /\ PassesGate(p_key)
    /\ MarkersIn(p_key) # {}
    /\ SnOccurrences(p_key) = {}
    /\ ~ HasNoise(p_key)
    /\ p_before.character # <<>>

\* C16: a key that passes the gate, has no identity and holds a noise
\* marker is passed over: the scan does not raise and ids is what it was,
\* no character made and no slot of a character changed.
C16_NoiseIsSkipped ==
    ( /\ KeyScanned
      /\ PassesGate(p_key)
      /\ SnOccurrences(p_key) = {}
      /\ HasNoise(p_key) )
    => /\ ~ p_raised
       /\ p_pc = "scanned"
       /\ p_ids = p_before
       /\ p_ids.character = p_before.character

\* The scan of a key under othername/, with the value of ICON in it and no
\* identity, is over, and the character the scan had is as it was.
C16_Witness ==
    /\ p_pc = "scanned"
    /\ PassesGate(p_key)
    /\ SnOccurrences(p_key) = {}
    /\ IsSubstr(<<"o", "t", "h", "e", "r", "n", "a", "m", "e">>, p_key)
    /\ CharaAssetType[match_asset_by_string(p_key)].name = "ICON"
    /\ p_before.character # <<>>
    /\ p_ids.character = p_before.character

\* A call of process_dirs has raised
SomeWorkerFailed == \E w \in DOMAIN w_state : w_state[w] = "failed"

\* C17: once the scan of a chunk has raised, get_ids merges no result and
\* writes no ids.json, whatever the other workers return, and it can only
\* end by raising; it raises for no other cause.
C17_WorkerFailureIsFatal ==
    /\ SomeWorkerFailed =>
          /\ g_pc \in {"map", "shutdown", "raised"}
          /\ results = <<>>
          /\ g_merged = 0
          /\ g_ids = get_data_wrapper
          /\ ids_json = NoFile
          /\ (~ ENABLED Next) => g_pc = "raised"
    /\ g_pc \in {"shutdown", "raised"} => SomeWorkerFailed

\* get_ids has raised after the second of two workers failed, the first
\* having returned a result with a character and a card in it.
C17_Witness ==
    /\ g_pc = "raised"
    /\ NUM_THREADS = 2
    /\ w_state = <<"done", "failed">>
    /\ local_ids[1].character # <<>>
    /\ local_ids[1].card # <<>>
    /\ ids_json = NoFile

\* A call of process_dirs is waiting for a thread or running
SomeWorkerScans ==
    \E w \in DOMAIN w_state : w_state[w] \in {"pending", "running"}

\* The scan of this run is complete: every call of process_dirs has
\* returned, every chunk's result is merged and ids.json holds the merge
ScanCompleted ==
    /\ g_pc = "done"
    /\ Len(w_state) = NUM_THREADS
    /\ AllReturned(w_state)
    /\ Len(results) = NUM_THREADS
    /\ g_merged = Len(results)
    /\ ids_json = <<g_ids>>

\* get_card_data has been called: the lookup or the reconciliation pass
\* is under way or over
CardPassBegun == k_pc # "off"

\* get_card_data has loaded ids.json
IdsLoaded == k_pc \in {"loop", "while", "done"}

RunInParallel ==
    \E v, w \in DOMAIN w_state :
        v # w /\ w_state[v] = "running" /\ w_state[w] = "running"

\* C19: while workers run in parallel no step of one writes a variable
\* another reads or writes: DataService.processed, which all of them read,
\* stays as it is.
C19_NoSharedWrites ==
    [][RunInParallel => processed' = processed]_vars

\* Two workers have scanned one directory each and returned, and
\* DataService.processed counts one.
C19_Witness ==
    /\ \A w \in DOMAIN w_state : w_state[w] = "done"
    /\ NUM_THREADS = 2
    /\ Len(all_dirs) = 2
    /\ \A i \in 1..2 : all_dirs[i][1] # "root"
    /\ processed = 1

\* C20: when the request to the provider fails, get_card_data raises an
\* Exception whose message holds the provider's, no entry is emitted, no
\* data.json is written, nothing is stored in the table, and exactly one
\* request was sent; after a failed request the pass goes no further.
C20_ProviderFailureIsFatal ==
    /\ k_pc = "raised" =>
          /\ ~ api_ok
          /\ k_requests = 1
          /\ k_error = "Failed to get card data from YGOPRO: "
                          \o "Failed to get metadata for cards: "
                          \o api_text
          /\ out_wrapper = get_data_wrapper
          /\ data_json = NoFile
          /\ db = <<>>
    /\ (k_requests > 0 /\ ~ api_ok) => k_pc = "raised"
    /\ k_requests <= 1

\* The request failed with three cards waiting that have their three
\* sizes and a name at the provider, and get_card_data has raised.
C20_Witness ==
    /\ k_pc = "raised"
    /\ api_text = "Too Many Requests"
    /\ Len(IdsCards) = 3
    /\ \A i \in 1..3 :
          /\ {"small", "medium", "large"} \subseteq KeySet(IdsCards[i].v)
          /\ HasKey(api_rows, IdsCards[i].k)
    /\ k_requests = 1
    /\ data_json = NoFile

\* No two characters of the list have the same konami_id
UniqueIdentities(characters) ==
    \A i, j \in DOMAIN characters :
        characters[i].konami_id = characters[j].konami_id => i = j

\* C21: no two character records have the same identity, in what the scan
\* of a directory returns, in the local_ids of a worker, in a result of
\* the pool, in the ids of get_ids and in ids.json.
C21_IdentityUnique ==
    /\ \A dir \in DirMenu : UniqueIdentities(ScanOf[dir].ids.character)
    /\ \A w \in DOMAIN local_ids : UniqueIdentities(local_ids[w].character)
    /\ \A i \in DOMAIN results : UniqueIdentities(results[i].character)
    /\ UniqueIdentities(g_ids.character)
    /\ ids_json # NoFile => UniqueIdentities(ids_json[1].character)

\* Two workers have both returned a character of identity 100, one of them
\* from a directory with two keys of it, and the merged ids.json has it
\* once, beside a second identity.
C21_Witness ==
    /\ g_pc = "done"
    /\ NUM_THREADS = 2
    /\ \A w \in DOMAIN local_ids :
          \E i \in DOMAIN local_ids[w].character :
              local_ids[w].character[i].konami_id = 100
    /\ \E dir \in DirMenu :
          /\ \E i \in DOMAIN all_dirs : all_dirs[i] = dir
          /\ Len(ScanOf[dir].ids.character) = 1
          /\ Cardinality(DOMAIN ScanOf[dir].ids.character[1].assets) = 2
    /\ Len(ids_json[1].character) = 2

\* The list has a character of this identity
HasIdentity(characters, konami_id) ==
    \E i \in DOMAIN characters : characters[i].konami_id = konami_id

\* The series of the character of this identity in the list
SeriesCarried(characters, konami_id) ==
    LET i == CHOOSE j \in DOMAIN characters :
                 characters[j].konami_id = konami_id
    IN  characters[i].series

\* Every character of before is in after, at its place, with its series
KeepsSeries(before, after) ==
    \A i \in DOMAIN before :
        /\ i \in DOMAIN after
        /\ after[i].konami_id = before[i].konami_id
        /\ after[i].series = before[i].series

\* The chunks merged so far that saw this identity
ChunksWith(konami_id) ==
    {i \in 1..g_merged : HasIdentity(results[i].character, konami_id)}

\* C22: no scan and no merge changes the series a character record was
\* created with, in a worker's local_ids and in the ids of get_ids; and
\* the series of an identity in the merged ids is the one carried by the
\* lowest-index chunk that saw the identity.
C22_SeriesSetOnce ==
    /\ [][/\ \A w \in DOMAIN local_ids :
                KeepsSeries(local_ids[w].character, local_ids'[w].character)
          /\ KeepsSeries(g_ids.character, g_ids'.character)]_vars
    /\ [](g_pc \in {"merge", "done"} =>
            \A i \in DOMAIN g_ids.character :
                LET c == g_ids.character[i]
                    seen == ChunksWith(c.konami_id)
                IN  /\ seen # {}
                    /\ c.series =
                          SeriesCarried(
                             results[CHOOSE j \in seen :
                                        \A k \in seen : j <= k].character,
                             c.konami_id))

\* The results of two workers both carry identity 100 with its series, it
\* was merged into the character the first result brought, and ids.json
\* has it with that series.
C22_Witness ==
    /\ g_pc = "done"
    /\ NUM_THREADS = 2
    /\ ChunksWith(100) = {1, 2}
    /\ SeriesCarried(results[1].character, 100) # NoSeries
    /\ SeriesCarried(ids_json[1].character, 100) =
          SeriesCarried(results[1].character, 100)
    /\ Len(ids_json[1].character[1].assets) = 2

\* The family whose branch of get_dir_data takes the key
FamilyOf(key) ==
    IF IsSubstr(Str_card, key) THEN "card"
    ELSE IF IsSubstr(Str_sleeve, key) THEN "sleeve"
    ELSE IF IsSubstr(Str_playmat, key) THEN "playmat"
    ELSE "none"

\* The slots a key of the family names
SlotsNamed(cat, key) ==
    LET table == IF cat = "card" THEN CardSlots ELSE SmallMediumSlots
    IN  {table[t].slot : t \in {u \in DOMAIN table :
                                   IsSubstr(table[u].marker, key)}}

\* The keys of the containers a directory is drawn from
DirKeys == UNION {{c[j] : j \in DOMAIN c} : c \in DirContainers}

\* For each of these keys, its family and the slots it names
FamilyOfKey == [key \in DirKeys |-> FamilyOf(key)]

SlotsNamedByKey == [key \in DirKeys |-> SlotsNamed(FamilyOf(key), key)]

\* The files of the directory with an entry that writes the slot of the
\* texture name, by their place in file order
WritingFiles(cat, m_Name, slot) ==
    {f \in DOMAIN d_files :
        /\ \E t \in DOMAIN d_files[f].textures :
              d_files[f].textures[t] = m_Name
        /\ \E j \in DOMAIN d_files[f].container :
              /\ FamilyOfKey[d_files[f].container[j]] = cat
              /\ slot \in SlotsNamedByKey[d_files[f].container[j]]}

AllTextures == {"4007", "4008"}

AllSlots == {"small", "medium", "large", "mask", "name"}

\* C23: after the scan of a directory, a role slot of a texture name is set
\* exactly when an entry of the directory wrote it, and it holds the bundle
\* of the last entry in file order that wrote it, whatever the earlier
\* entries wrote and whatever slots the later entries wrote beside it.
C23_LastEntryWins ==
    d_pc = "returned" =>
        /\ ~ d_result.raised
        /\ \A cat \in ImageCategories, m_Name \in AllTextures,
              slot \in AllSlots :
              LET writing == WritingFiles(cat, m_Name, slot)
              IN  IF writing = {}
                  THEN ~ SlotIsSet(d_result.ids[cat], m_Name, slot)
                  ELSE /\ SlotIsSet(d_result.ids[cat], m_Name, slot)
                       /\ SlotValue(d_result.ids[cat], m_Name, slot) =
                             d_files[MaxOf(writing)].bundle

\* Two bundles were scanned: the first wrote small and medium of the cards
\* 4007 and 4008, the second small of 4007 again; small of 4007 holds the
\* second bundle, and medium of 4007 and small of 4008 still the first.
C23_Witness ==
    /\ d_pc = "returned"
    /\ Len(d_files) = 2
    /\ WritingFiles("card", "4007", "small") = {1, 2}
    /\ WritingFiles("card", "4007", "medium") = {1}
    /\ WritingFiles("card", "4008", "small") = {1}
    /\ SlotValue(d_result.ids.card, "4007", "small") = "f2"
    /\ SlotValue(d_result.ids.card, "4007", "medium") = "f1"
    /\ SlotValue(d_result.ids.card, "4008", "small") = "f1"

\* The family that takes the key, the families being tried in the order
\* card, sleeve, playmat, character; "none" when none takes it
GateOf(key) ==
    IF FamilyOf(key) # "none" THEN FamilyOf(key)
    ELSE IF is_character_asset(key) THEN "character"
    ELSE "none"

Families == {"card", "sleeve", "playmat", "character"}

\* What the handler of the family makes of ids with the key
HandledBy(family, ids, key) ==
    IF family = "card"
    THEN [raised |-> FALSE,
          ids |-> parse_card(ids, KeyEnv, KeyEnv.bundle, key)]
    ELSE IF family = "sleeve"
    THEN [raised |-> FALSE,
          ids |-> parse_sleeve(ids, KeyEnv, KeyEnv.bundle, key)]
    ELSE IF family = "playmat"
    THEN [raised |-> FALSE,
          ids |-> parse_playmat(ids, KeyEnv, KeyEnv.bundle, key)]
    ELSE parse_character_asset(ids, KeyEnv.bundle, key)

\* C24: a key that no family takes is passed over, without an error and
\* with ids as it was; a key that a family takes is handled by the first
\* family that takes it, in the order card, sleeve, playmat, character,
\* and the mappings of the other families are as they were.
C24_OneFamilyInOrder ==
    KeyScanned =>
        LET family == GateOf(p_key)
        IN  /\ family = "none" => (~ p_raised /\ p_ids = p_before)
            /\ family # "none" =>
                  /\ p_ids = HandledBy(family, p_before, p_key).ids
                  /\ p_raised = HandledBy(family, p_before, p_key).raised
            /\ \A other \in Families \ {family} :
                  p_ids[other] = p_before[other]

\* A key with the sleeve marker and then the card marker in it was scanned:
\* the card's small slot has the key's bundle and no sleeve was recorded.
C24_Witness ==
    /\ p_pc = "scanned"
    /\ IsSubstr(Str_sleeve, p_key)
    /\ IsSubstr(Str_card, p_key)
    /\ p_before.card # <<>>
    /\ SlotValue(p_before.card, "4007", "small") = "k0s"
    /\ SlotValue(p_ids.card, "4007", "small") = KeyEnv.bundle
    /\ p_ids.sleeve = <<>>

\* C25: with len(lst) = k*n + m and 0 <= m < n, the first m chunks that
\* chunkify returns have k+1 items each and the other n-m have k each.
C25_ExtraItemsGoFirst ==
    c_pc = "returned" =>
        LET k == Len(c_lst) \div c_n
            m == Len(c_lst) % c_n
        IN  /\ Len(c_lst) = k * c_n + m
            /\ 0 <= m /\ m < c_n
            /\ Len(c_chunks) = c_n
            /\ \A j \in 1..c_n :
                  Len(c_chunks[j]) = IF j <= m THEN k + 1 ELSE k

\* chunkify has returned for 5 items and 3 parts: the sizes are 2, 2, 1.
C25_Witness ==
    /\ c_pc = "returned"
    /\ Len(c_lst) = 5
    /\ c_n = 3
    /\ Len(c_chunks[1]) = 2
    /\ Len(c_chunks[2]) = 2
    /\ Len(c_chunks[3]) = 1

\* The directories of the listing that process_dirs scans
ScannedDirs == {i \in DOMAIN all_dirs : all_dirs[i][1] # "root"}

\* Every call of process_dirs was submitted and has returned
AllWorkersFinished ==
    /\ g_pc \in {"map", "merge", "done"}
    /\ Len(w_state) = NUM_THREADS
    /\ AllReturned(w_state)

\* C26: for every interleaving of the workers, once all of them have
\* returned DataService.processed is the number of directories scanned
\* over all chunks.
C26_ProcessedCountsAll ==
    AllWorkersFinished => processed = Cardinality(ScannedDirs)

\* get_ids has ended after two workers scanned three directories between
\* them, and DataService.processed counts one.
C26_Witness ==
    /\ g_pc = "done"
    /\ NUM_THREADS = 2
    /\ Cardinality(ScannedDirs) = 3
    /\ AllWorkersFinished
    /\ processed = 1

\* C27: a call of merge_nested_dicts on a category only adds or overwrites.
\* Every texture name and every slot the accumulator had is still there, a
\* slot the incoming partial does not set has the value it had, no slot
\* is there that neither had, and the incoming partial holds after the
\* call what it held before.
C27_MergeOnlyAddsOrOverwrites ==
    m_pc = "merged" =>
        LET after1 == Deref(m_heap, m_dict1)
            after2 == Deref(m_heap, m_dict2)
        IN  /\ \A i \in DOMAIN m_before1 :
                  LET m_Name == m_before1[i].k
                  IN  /\ HasKey(after1, m_Name)
                      /\ \A slot \in KeySet(m_before1[i].v) :
                            /\ SlotIsSet(after1, m_Name, slot)
                            /\ ~ SlotIsSet(m_before2, m_Name, slot) =>
                                  SlotValue(after1, m_Name, slot) =
                                  SlotValue(m_before1, m_Name, slot)
            /\ \A i \in DOMAIN after1 :
                  \A slot \in KeySet(after1[i].v) :
                      \/ SlotIsSet(m_before1, after1[i].k, slot)
                      \/ SlotIsSet(m_before2, after1[i].k, slot)
            /\ after2 = m_before2

\* The accumulator holds card 4007 in the dict the first partial brought,
\* with small and medium; the second partial, with small of 4007 and with
\* 4008, was merged: small is overwritten, medium kept, 4008 added as the
\* partial's own dict, and the partial is as it was.
C27_Witness ==
    /\ m_pc = "merged"
    /\ m_merges = 2
    /\ SlotIsSet(m_before1, "4007", "small")
    /\ SlotValue(m_before1, "4007", "small") = "p1"
    /\ SlotIsSet(m_before1, "4007", "medium")
    /\ ~ HasKey(m_before1, "4008")
    /\ HasKey(m_before2, "4007")
    /\ KeySet(GetItem(m_before2, "4007")) = {"small"}
    /\ HasKey(m_before2, "4008")
    /\ SlotValue(Deref(m_heap, m_dict1), "4007", "small") = "p2"
    /\ SlotValue(Deref(m_heap, m_dict1), "4007", "medium") = "p1"
    /\ GetItem(m_dict1, "4008") = GetItem(m_dict2, "4008")
    /\ GetItem(m_dict1, "4007") # GetItem(m_dict2, "4007")

\* C28: the suffixing loop ends for every candidate. It makes at most one
\* turn for each name emitted so far, it is left with a free name, and the
\* pass as a whole comes to its end.
C28_SuffixLoopTerminates ==
    /\ [](k_pc = "while" => k_alt_count <= Len(out_wrapper.card) + 1)
    /\ (k_pc = "while") ~>
          (k_pc = "loop" /\ HasKey(out_wrapper.card, k_name))
    /\ <>(k_pc \in {"done", "raised"})

\* The loop has made two turns for the third candidate, past the names of
\* the first and of the second, and is about to be left with a free name.
C28_Witness ==
    /\ k_pc = "while"
    /\ k_alt_count = 3
    /\ Len(out_wrapper.card) = 2
    /\ out_wrapper.card[1].k = Name_Kuriboh
    /\ out_wrapper.card[2].k = Name_Kuriboh_alt1
    /\ k_name = Name_Kuriboh_alt1 \o AltSuffix(2)
    /\ ~ NameTaken(out_wrapper.card, k_name)

=============================================================================
